---- MODULE Spec2Model ----
(***************************************************************************)
(* Model of the Excel File Validator (src/app.py): column addressing,      *)
(* sheet comparison, column and cell comparison, row-count validation,     *)
(* data validation and the sequencing of the stages in main.               *)
(*                                                                         *)
(* A Python str is a sequence of one-character strings; a dataframe is a   *)
(* record [cols |-> number of columns, rows |-> sequence of rows], a row   *)
(* being a sequence of cells; a cell is a record tagged by its loader-level*)
(* type (t = "null", "text", "num", "datetime" or "bool").                 *)
(***************************************************************************)
EXTENDS Integers, Sequences, FiniteSets, TLC

VARIABLES
    \* ---- column addressing (column_letter_to_index, get_excel_column_name)
    col_pc,         \* "start" | "named" | "indexed"
    col_mode,       \* "index": a column index is converted; "label": a typed label is parsed
    col_idx,        \* the 0-based column index given to get_excel_column_name
    col_letter,     \* the label (typed by the user, or produced from col_idx)
    col_result,     \* outcome of column_letter_to_index: [raised, value]
    \* ---- the two loaded workbooks (load_excel_file)
    template_sheet_names,   \* template_data['sheet_names']
    data_sheet_names,       \* data_to_validate['sheet_names']
    \* ---- validate_sheets
    vs_pc,              \* "start" | "done"
    missing_sheets,     \* template sheets absent from the data file
    extra_sheets,       \* data sheets absent from the template
    sheet_comparison,   \* comparison_data of validate_sheets
    \* ---- validate_row_counts
    rc_pc,              \* "start" | "loop" | "summary" | "done" | "nocommon"
    rc_todo,            \* the common sheets the loop has still to visit, sorted
    rc_read,            \* per visited sheet: what the loop read of its two tables
    row_comparison,     \* comparison_data of validate_row_counts
    correct_sheets,     \* summary counters
    incorrect_sheets,
    unknown_sheets,
    rc_summary,         \* the message that ends the summary
    \* ---- the classification of one cell of the numeric region
    cc_pc,              \* "start" | "done"
    cc_value,           \* the cell
    cc_class,           \* the category the cell is reported under
    \* ---- validate_columns_and_cells, on one common sheet
    vc_pc,                  \* "start" | "parsed" | "rejected" | "done" | "raised"
    validation_mode,        \* "Specific Rows" | "All Rows"
    row_input,              \* the text typed in "Rows to Validate"
    rows_to_validate,       \* the 0-based row indexes parsed from row_input
    template_df,            \* the sheet's table in the template
    data_df,                \* the sheet's table in the data file
    columns_match,
    validated_data,         \* one entry per compared cell
    text_cell_mismatches,   \* one entry per differing cell
    sheet_valid,
    \* ---- validate_data
    vd_pc,                  \* "start" | "loop" | "done" | "rejected" | "raised" | "hung"
    vd_typed,               \* the texts typed in the three column widgets
    datetime_start_row,
    numeric_start_row,
    vd_config,              \* the labels read and their indexes
    vd_todo,                \* the sheets the loop has still to visit
    vd_read,                \* per visited sheet: its table and combined_datetimes
    validation_results,     \* per visited sheet: its results entry
    all_valid,
    \* ---- main
    main_pc,            \* "start" | "tab1" .. "tab6" | "returned" | "hung"
    uploaded,           \* template_file and data_files are both there
    widgets,            \* what the user typed in the widgets of the stages
    template_data,      \* load_excel_file(template_file)
    data_to_validate,   \* load_excel_file(selected_data_file)
    tabs_run,           \* the stages called so far, in order
    main_error,         \* "Error loading Excel files" was shown
    \* ---- find_missing_data
    fm_pc,              \* "start" | "few_rows" | "no_valid_datetime" | "not_enough_points"
                        \* | "detected" | "interval" | "no_missing_data" | "gaps_found" | "error"
    fm_column,          \* df.iloc[6:, 0]: the cells of column A from row 7 on
    datetime_col,       \* the valid instants of the column, sorted
    detected_interval,  \* the interval detected, in seconds
    custom_interval,    \* the widgets of "Use custom interval instead"
    expected_interval,  \* the interval the gaps are measured with, in seconds
    gap_ranges,
    missing_timestamps,
    \* ---- main run twice
    rr_pc,              \* "load" | "tab1" .. "tab5" | "end" | "hung"
    rr_run,             \* 1: the first run of the script, 2: the run after it
    rr_inputs,          \* the files uploaded and the values of the widgets
    idxmax_tie,         \* which of several most frequent values idxmax gives
    session_state,      \* st.session_state: "empty", or "files" once the files are noted
    rr_report,          \* what the stages of this run have shown
    first_report        \* what the stages of the run before have shown

colVars == <<col_pc, col_mode, col_idx, col_letter, col_result>>
wbVars  == <<template_sheet_names, data_sheet_names>>
vsVars  == <<vs_pc, missing_sheets, extra_sheets, sheet_comparison>>
rcVars  == <<rc_pc, rc_todo, rc_read, row_comparison, correct_sheets,
             incorrect_sheets, unknown_sheets, rc_summary>>

ccVars  == <<cc_pc, cc_value, cc_class>>
vcVars  == <<vc_pc, validation_mode, row_input, rows_to_validate, template_df,
             data_df, columns_match, validated_data, text_cell_mismatches,
             sheet_valid>>

vdVars  == <<vd_pc, vd_typed, datetime_start_row, numeric_start_row, vd_config,
             vd_todo, vd_read, validation_results, all_valid>>
mnVars  == <<main_pc, uploaded, widgets, template_data, data_to_validate,
             tabs_run, main_error>>

fmVars  == <<fm_pc, fm_column, datetime_col, detected_interval, custom_interval,
             expected_interval, gap_ranges, missing_timestamps>>

rrVars  == <<rr_pc, rr_run, rr_inputs, idxmax_tie, session_state, rr_report,
             first_report>>

vars == <<colVars, wbVars, vsVars, rcVars, ccVars, vcVars, vdVars, mnVars,
          fmVars, rrVars>>

----------------------------------------------------------------------------
(* Bounds of the model.                                                    *)

\* largest column index converted to a label (702 is the first 3-letter label)
MaxColIdx == 760
\* longest label typed by the user
MaxLabelLen == 2
\* number of distinct sheet names a workbook draws its sheets from
MaxSheets == 3
\* longest text of a cell of the numeric region
MaxCellLen == 3
\* largest number of rows and of columns of a compared table
MaxRows == 2
MaxCols == 2

----------------------------------------------------------------------------
(* Python str helpers.                                                     *)

\* the printable ASCII characters in code-point order, starting at code 32
\* (the double quote, the backslash and the backtick are written by name)
AsciiTable ==
    << " ", "!", "dquote", "#", "$", "%", "&", "'", "(", ")", "*", "+", ",", "-",
       ".", "/", "0", "1", "2", "3", "4", "5", "6", "7", "8", "9", ":", ";",
       "<", "=", ">", "?", "@", "A", "B", "C", "D", "E", "F", "G", "H", "I",
       "J", "K", "L", "M", "N", "O", "P", "Q", "R", "S", "T", "U", "V", "W",
       "X", "Y", "Z", "[", "bslash", "]", "^", "_", "btick", "a", "b", "c", "d", "e",
       "f", "g", "h", "i", "j", "k", "l", "m", "n", "o", "p", "q", "r", "s",
       "t", "u", "v", "w", "x", "y", "z", "{", "|", "}", "~" >>

\* ord(c)
Ord(c) == 31 + (CHOOSE i \in 1..Len(AsciiTable) : AsciiTable[i] = c)

\* chr(n)
Chr(n) == AsciiTable[n - 31]

IsLower(c) == Ord(c) >= Ord("a") /\ Ord(c) <= Ord("z")
IsUpper(c) == Ord(c) >= Ord("A") /\ Ord(c) <= Ord("Z")
\* c.isalpha(), on the ASCII characters of the model
IsAlpha(c) == IsLower(c) \/ IsUpper(c)
IsDigit(c) == c \in {"0", "1", "2", "3", "4", "5", "6", "7", "8", "9"}
\* characters removed by str.strip()
IsSpace(c) == c = " "

\* str.upper()
Upper(s) == [i \in 1..Len(s) |-> IF IsLower(s[i]) THEN Chr(Ord(s[i]) - 32) ELSE s[i]]

RECURSIVE LStrip(_)
LStrip(s) == IF s # <<>> /\ IsSpace(Head(s)) THEN LStrip(Tail(s)) ELSE s

RECURSIVE RStrip(_)
RStrip(s) ==
    IF s # <<>> /\ IsSpace(s[Len(s)]) THEN RStrip(SubSeq(s, 1, Len(s) - 1)) ELSE s

\* str.strip()
Strip(s) == RStrip(LStrip(s))

\* all strings over the characters cs of length at most n
RECURSIVE StringsUpTo(_, _)
StringsUpTo(cs, n) ==
    IF n = 0 THEN { <<>> }
    ELSE LET shorter == StringsUpTo(cs, n - 1)
         IN  shorter \cup { Append(s, c) : s \in shorter, c \in cs }

\* a < b in Python's str order (lexicographic by code point)
RECURSIVE StrLess(_, _)
StrLess(a, b) ==
    IF b = <<>> THEN FALSE
    ELSE IF a = <<>> THEN TRUE
    ELSE IF Head(a) # Head(b) THEN Ord(Head(a)) < Ord(Head(b))
    ELSE StrLess(Tail(a), Tail(b))

\* sorted(S) for a set S of str
RECURSIVE Sorted(_)
Sorted(S) ==
    IF S = {} THEN <<>>
    ELSE LET m == CHOOSE x \in S : \A y \in S : x = y \/ StrLess(x, y)
         IN  <<m>> \o Sorted(S \ {m})

\* set(seq)
ToSet(seq) == { seq[i] : i \in 1..Len(seq) }

\* the orderings of the subsets of S: the lists without repetition over S
RECURSIVE ListsOver(_)
ListsOver(S) ==
    { <<>> } \cup UNION { { <<x>> \o l : l \in ListsOver(S \ {x}) } : x \in S }

RECURSIVE Pow(_, _)
Pow(b, e) == IF e = 0 THEN 1 ELSE b * Pow(b, e - 1)

----------------------------------------------------------------------------
(* The loaded workbooks.                                                   *)

\* sheet names, not in sorted order ("jan" sorts after every capital)
SheetNamePool ==
    << <<"J", "a", "n">>, <<"F", "e", "b">>, <<"j", "a", "n">>,
       <<"F", "e">>, <<"A", "p", "r">> >>

SheetNames == { SheetNamePool[i] : i \in 1..MaxSheets }

\* no workbook is loaded while a pure function is examined
WbIdle == template_sheet_names = <<>> /\ data_sheet_names = <<>>

\* pd.ExcelFile(...).sheet_names: the sheets in workbook order, no name twice
WbInit ==
    /\ template_sheet_names \in ListsOver(SheetNames)
    /\ data_sheet_names \in ListsOver(SheetNames)

\* the same, each list in sorted order: for a function that only takes
\* set(sheet_names), the workbook order of the sheets is immaterial
WbSetInit ==
    /\ template_sheet_names \in { Sorted(S) : S \in SUBSET SheetNames }
    /\ data_sheet_names \in { Sorted(S) : S \in SUBSET SheetNames }

\* template_sheets.intersection(data_sheets)
CommonSheets == ToSet(template_sheet_names) \cap ToSet(data_sheet_names)

----------------------------------------------------------------------------
(* validate_sheets.                                                        *)

\* comparison_data built over the template's sheets only
SheetComparisonTemplateOnly(template_sheets, data_sheets) ==
    LET order == Sorted(template_sheets)
    IN  [i \in 1..Len(order) |->
            [sheet       |-> order[i],
             in_template |-> IF order[i] \in template_sheets THEN "Y" ELSE "N",
             in_data     |-> IF order[i] \in data_sheets THEN "Y" ELSE "N",
             status      |-> IF order[i] \in template_sheets /\ order[i] \in data_sheets
                             THEN "Match" ELSE "Missing"]]

\* comparison_data: one row per sheet of sorted(template_sheets.union(data_sheets))
SheetComparison(template_sheets, data_sheets) ==
    LET order == Sorted(template_sheets \cup data_sheets)
    IN  [i \in 1..Len(order) |->
            [sheet       |-> order[i],
             in_template |-> IF order[i] \in template_sheets THEN "Y" ELSE "N",
             in_data     |-> IF order[i] \in data_sheets THEN "Y" ELSE "N",
             status      |-> IF order[i] \in template_sheets /\ order[i] \in data_sheets
                             THEN "Match" ELSE "Missing"]]

VsIdle ==
    /\ vs_pc = "idle" /\ missing_sheets = {} /\ extra_sheets = {}
    /\ sheet_comparison = <<>>

VsInit ==
    /\ vs_pc = "start" /\ missing_sheets = {} /\ extra_sheets = {}
    /\ sheet_comparison = <<>>

ValidateSheets ==
    /\ vs_pc = "start"
    /\ LET template_sheets == ToSet(template_sheet_names)
           data_sheets     == ToSet(data_sheet_names)
       IN  /\ missing_sheets' = template_sheets \ data_sheets
           /\ extra_sheets' = data_sheets \ template_sheets
           /\ sheet_comparison' = SheetComparison(template_sheets, data_sheets)
    /\ vs_pc' = "done"
    /\ UNCHANGED <<colVars, wbVars, rcVars, ccVars, vcVars, vdVars, mnVars,
                   fmVars, rrVars>>

----------------------------------------------------------------------------
(* Column addressing.                                                      *)

\* get_excel_column_name without the "col_idx -= 1" step: plain base 26
RECURSIVE GetExcelColumnNamePlainBase26(_, _)
GetExcelColumnNamePlainBase26(idx, acc) ==
    LET q   == idx \div 26
        r   == idx % 26
        res == <<Chr(65 + r)>> \o acc
    IN  IF q = 0 THEN res ELSE GetExcelColumnNamePlainBase26(q, res)

\* the loop of get_excel_column_name: idx is col_idx, acc is result
RECURSIVE GetExcelColumnNameLoop(_, _)
GetExcelColumnNameLoop(idx, acc) ==
    LET q   == idx \div 26
        r   == idx % 26
        res == <<Chr(65 + r)>> \o acc
    IN  IF q = 0 THEN res ELSE GetExcelColumnNameLoop(q - 1, res)

\* get_excel_column_name(col_idx), for col_idx >= 0 (the loop does not end
\* for a negative col_idx: divmod then never yields a quotient of 0)
get_excel_column_name(idx) == GetExcelColumnNameLoop(idx, <<>>)

\* column_letter_to_index(col_letter): i enumerates reversed(col_letter), so
\* the character at reversed position i is s[n - i]. No statement of the
\* function raises for a str argument, whatever its characters.
column_letter_to_index(letter) ==
    LET s == Upper(letter)
        n == Len(s)
        RECURSIVE Sum(_)
        Sum(i) == IF i = n THEN 0
                  ELSE (Ord(s[n - i]) - Ord("A") + 1) * Pow(26, i) + Sum(i + 1)
    IN  [raised |-> FALSE, value |-> Sum(0) - 1]

\* characters a user may type in a column-letter field
LabelChars == {"A", "B", "Z", "a", "1", "$", "@"}

NoResult == [raised |-> FALSE, value |-> -1000]

\* the column-addressing variables while another component is examined
ColIdle ==
    /\ col_pc = "idle" /\ col_mode = "none" /\ col_idx = -1
    /\ col_letter = <<>> /\ col_result = NoResult

ColInit ==
    /\ col_pc = "start"
    /\ col_result = NoResult
    /\ \/ /\ col_mode = "index"
          /\ col_idx \in 0..MaxColIdx
          /\ col_letter = <<>>
       \/ /\ col_mode = "label"
          /\ col_idx = -1
          /\ col_letter \in StringsUpTo(LabelChars, MaxLabelLen)

\* a column index is turned into its label
GetExcelColumnName ==
    /\ col_pc = "start" /\ col_mode = "index"
    /\ col_letter' = get_excel_column_name(col_idx)
    /\ col_pc' = "named"
    /\ UNCHANGED <<col_mode, col_idx, col_result, wbVars, vsVars, rcVars, ccVars,
                   vcVars, vdVars, mnVars,
                   fmVars, rrVars>>

\* a label (produced from an index, or typed) is turned into an index
ColumnLetterToIndex ==
    /\ \/ col_pc = "named"
       \/ col_pc = "start" /\ col_mode = "label"
    /\ col_result' = column_letter_to_index(col_letter)
    /\ col_pc' = "indexed"
    /\ UNCHANGED <<col_mode, col_idx, col_letter, wbVars, vsVars, rcVars, ccVars,
                   vcVars, vdVars, mnVars,
                   fmVars, rrVars>>

ColNext == GetExcelColumnName \/ ColumnLetterToIndex

----------------------------------------------------------------------------
(* validate_row_counts.                                                    *)

\* the rows above the data: "+ 7" of the expected row count, and the
\* "at least 7 rows" needed for the anchor cell A7
HeaderRows == 7

NullCell == [t |-> "null"]
TextCell(s) == [t |-> "text", s |-> s]
NumCell(s) == [t |-> "num", s |-> s]
DateTimeCell(y, m, d) ==
    [t |-> "datetime", year |-> y, month |-> m, day |-> d,
     hour |-> 0, minute |-> 0, second |-> 0]
BoolCell == [t |-> "bool"]

\* pd.isna(value)
IsNa(cell) == cell.t = "null"

is_leap_year(year) ==
    (year % 4 = 0 /\ year % 100 # 0) \/ (year % 400 = 0)

\* get_days_in_month with a February of 29 days in every fourth year
get_days_in_month_every_fourth_year(month, year) ==
    CASE month = 2 -> IF year % 4 = 0 THEN 29 ELSE 28
      [] month \in {4, 6, 9, 11} -> 30
      [] month \in {1, 3, 5, 7, 8, 10, 12} -> 31
      [] OTHER -> 30

get_days_in_month(month, year) ==
    CASE month = 2 -> IF is_leap_year(year) THEN 29 ELSE 28
      [] month \in {4, 6, 9, 11} -> 30
      [] month \in {1, 3, 5, 7, 8, 10, 12} -> 31
      [] OTHER -> 30

\* the value of a string of decimal digits
RECURSIVE DigitsValue(_)
DigitsValue(s) ==
    IF s = <<>> THEN 0
    ELSE 10 * DigitsValue(SubSeq(s, 1, Len(s) - 1)) + (Ord(s[Len(s)]) - Ord("0"))

AllDigits(s) == \A i \in 1..Len(s) : IsDigit(s[i])

\* days of a month in the calendar, as the date parser checks them
CalendarDays(month, year) ==
    IF month = 2 THEN (IF (year % 4 = 0 /\ year % 100 # 0) \/ year % 400 = 0
                       THEN 29 ELSE 28)
    ELSE IF month \in {4, 6, 9, 11} THEN 30 ELSE 31

\* float("nan") as an expected row count: a number equal to no row count
NaN == -1

\* the texts pd.to_datetime takes for a missing date and that read_excel
\* leaves as text
NaTStrings == { <<"N", "a", "T">>, <<"n", "a", "t">>, <<"N", "A", "T">> }

\* pd.to_datetime(str), on the texts of the model: an ISO date YYYY-MM-DD of
\* the calendar gives its Timestamp, "NaT" gives NaT without raising, a text
\* with no date in it raises
ToDatetimeStr(s) ==
    IF s \in NaTStrings THEN [ok |-> TRUE, nat |-> TRUE]
    ELSE
    IF /\ Len(s) = 10 /\ s[5] = "-" /\ s[8] = "-"
       /\ AllDigits(SubSeq(s, 1, 4)) /\ AllDigits(SubSeq(s, 6, 7))
       /\ AllDigits(SubSeq(s, 9, 10))
    THEN LET y == DigitsValue(SubSeq(s, 1, 4))
             m == DigitsValue(SubSeq(s, 6, 7))
             d == DigitsValue(SubSeq(s, 9, 10))
         IN  IF y >= 1 /\ m \in 1..12 /\ d >= 1 /\ d <= CalendarDays(m, y)
             THEN [ok |-> TRUE, nat |-> FALSE, year |-> y, month |-> m]
             ELSE [ok |-> FALSE]
    ELSE [ok |-> FALSE]

\* what the try block of one loop iteration computes for a data sheet of
\* data.rows rows whose cell A7 is data.anchor:
\* [raised, expected_rows, month_days], 0 standing for None
ExpectedRows(data) ==
    LET unknown == [raised |-> FALSE, expected_rows |-> 0, month_days |-> 0]
        known(month, year) ==
            [raised |-> FALSE,
             expected_rows |-> month * 60 * 24 * get_days_in_month(month, year)
                               + HeaderRows,
             month_days |-> get_days_in_month(month, year)]
    IN  IF data.rows >= HeaderRows
        THEN CASE IsNa(data.anchor) -> unknown
               [] data.anchor.t = "text" ->
                    LET date_value == ToDatetimeStr(data.anchor.s)
                    IN  IF ~date_value.ok THEN unknown
                        \* "if date_value:" holds for NaT, whose month and
                        \* year are nan: days_in_month.get(nan, 30) is 30
                        \* and nan * 60 * 24 * 30 + 7 is nan
                        ELSE IF date_value.nat
                        THEN [raised |-> FALSE, expected_rows |-> NaN,
                              month_days |-> 30]
                        ELSE known(date_value.month, date_value.year)
               [] data.anchor.t = "datetime" ->
                    known(data.anchor.month, data.anchor.year)
               \* pd.to_datetime(True) raises TypeError
               [] data.anchor.t = "bool" ->
                    [raised |-> TRUE, expected_rows |-> 0, month_days |-> 0]
        ELSE unknown

\* the loop body with an except block that records nothing
RowCountEntryDropOnError(sheet_name, template_rows, data) ==
    LET e == ExpectedRows(data)
    IN  IF e.raised
        THEN << >>
        ELSE << [sheet |-> sheet_name, template_rows |-> template_rows,
                 data_rows |-> data.rows,
                 expected_rows |-> IF e.expected_rows = 0 THEN "Unknown"
                                   ELSE e.expected_rows,
                 month_days |-> IF e.month_days = 0 THEN "Unknown"
                                ELSE e.month_days,
                 status |-> IF e.expected_rows = 0 THEN "Unknown"
                            ELSE IF data.rows = e.expected_rows THEN "Correct"
                            ELSE "Incorrect"] >>

\* the loop body with a status that compares the template's row count
RowCountEntryTemplateRows(sheet_name, template_rows, data) ==
    LET e == ExpectedRows(data)
    IN  IF e.raised
        THEN << [sheet |-> sheet_name, template_rows |-> template_rows,
                 data_rows |-> data.rows, expected_rows |-> "Error",
                 month_days |-> "Error", status |-> "Error"] >>
        ELSE << [sheet |-> sheet_name, template_rows |-> template_rows,
                 data_rows |-> data.rows,
                 expected_rows |-> IF e.expected_rows = 0 THEN "Unknown"
                                   ELSE e.expected_rows,
                 month_days |-> IF e.month_days = 0 THEN "Unknown"
                                ELSE e.month_days,
                 status |-> IF e.expected_rows = 0 THEN "Unknown"
                            ELSE IF template_rows = e.expected_rows THEN "Correct"
                            ELSE "Incorrect"] >>

\* the entries one loop iteration appends to comparison_data: the try block's
\* entry, or the except block's when the try block raised
RowCountEntry(sheet_name, template_rows, data) ==
    LET e == ExpectedRows(data)
    IN  IF e.raised
        THEN << [sheet |-> sheet_name, template_rows |-> template_rows,
                 data_rows |-> data.rows, expected_rows |-> "Error",
                 month_days |-> "Error", status |-> "Error"] >>
        ELSE << [sheet |-> sheet_name, template_rows |-> template_rows,
                 data_rows |-> data.rows,
                 expected_rows |-> IF e.expected_rows = 0 THEN "Unknown"
                                   ELSE e.expected_rows,
                 month_days |-> IF e.month_days = 0 THEN "Unknown"
                                ELSE e.month_days,
                 status |-> IF e.expected_rows = 0 THEN "Unknown"
                            ELSE IF data.rows = e.expected_rows THEN "Correct"
                            ELSE "Incorrect"] >>

\* the characters of a status
StatusChars(status) ==
    CASE status = "Correct"   -> <<"C", "o", "r", "r", "e", "c", "t">>
      [] status = "Incorrect" -> <<"I", "n", "c", "o", "r", "r", "e", "c", "t">>
      [] status = "Unknown"   -> <<"U", "n", "k", "n", "o", "w", "n">>
      [] status = "Error"     -> <<"E", "r", "r", "o", "r">>

\* sub in s, for two str
Contains(sub, s) ==
    \E i \in 0..(Len(s) - Len(sub)) : SubSeq(s, i + 1, i + Len(sub)) = sub

\* sum(1 for item in comparison_data if sub in item["Status"])
CountStatus(sub, comparison) ==
    Cardinality({ i \in 1..Len(comparison) :
                    Contains(sub, StatusChars(comparison[i].status)) })

\* row counts and A7 cells of the data sheets of the model: a January 2024
\* date as text, two texts that are no date, a February 2023 date-time, a
\* boolean
AnchorCells ==
    { NullCell,
      TextCell(<<"2", "0", "2", "4", "-", "0", "1", "-", "1", "5">>),
      TextCell(<<"a", "b", "c">>),
      TextCell(<<"N", "a", "T">>),
      DateTimeCell(2023, 2, 1),
      BoolCell }

DataRowCounts == {6, 44647, 80647}

\* str(date) of a date: "YYYY-MM-DD"
IsoDate(y, m, d) ==
    << Chr(48 + ((y \div 1000) % 10)), Chr(48 + ((y \div 100) % 10)),
       Chr(48 + ((y \div 10) % 10)), Chr(48 + (y % 10)), "-",
       Chr(48 + ((m \div 10) % 10)), Chr(48 + (m % 10)), "-",
       Chr(48 + ((d \div 10) % 10)), Chr(48 + (d % 10)) >>

\* years of the anchor dates: a century year that is no leap year, one that
\* is, a common year and a leap year
AnchorYears == {1900, 2000, 2023, 2024}

\* A7 cells holding a date of every month of these years, as a date-time of
\* the workbook and as text
MonthAnchors ==
    { DateTimeCell(y, m, 1) : y \in AnchorYears, m \in 1..12 }
        \cup { TextCell(IsoDate(y, m, 15)) : y \in AnchorYears, m \in 1..12 }

TemplateRowCounts == {7, 44647}

RcIdle ==
    /\ rc_pc = "idle" /\ rc_todo = <<>> /\ rc_read = <<>>
    /\ row_comparison = <<>>
    /\ correct_sheets = 0 /\ incorrect_sheets = 0 /\ unknown_sheets = 0
    /\ rc_summary = "none"

RcInit ==
    /\ rc_pc = "start" /\ rc_todo = <<>> /\ rc_read = <<>>
    /\ row_comparison = <<>>
    /\ correct_sheets = 0 /\ incorrect_sheets = 0 /\ unknown_sheets = 0
    /\ rc_summary = "none"

\* the common sheets are found; without any the function returns
RowCountStart ==
    /\ rc_pc = "start"
    /\ IF CommonSheets = {}
       THEN rc_pc' = "nocommon" /\ rc_todo' = <<>>
       ELSE rc_pc' = "loop" /\ rc_todo' = Sorted(CommonSheets)
    /\ UNCHANGED <<rc_read, row_comparison, correct_sheets, incorrect_sheets,
                   unknown_sheets, rc_summary, colVars, wbVars, vsVars, ccVars,
                   vcVars, vdVars, mnVars,
                   fmVars, rrVars>>

\* one iteration of "for sheet_name in sorted(common_sheets)", the A7 cell
\* of the data sheet being one of anchors: the two tables of the sheet are
\* read and one entry is appended
RowCountSheetWith(anchors) ==
    /\ rc_pc = "loop"
    /\ \E template_rows \in TemplateRowCounts, rows \in DataRowCounts,
          anchor \in anchors :
          LET data == [rows |-> rows, anchor |-> anchor]
          IN  /\ rc_read' = Append(rc_read,
                      [sheet |-> Head(rc_todo), template_rows |-> template_rows,
                       data |-> data])
              /\ row_comparison' = row_comparison \o
                      RowCountEntry(Head(rc_todo), template_rows, data)
    /\ rc_todo' = Tail(rc_todo)
    /\ rc_pc' = IF Tail(rc_todo) = <<>> THEN "summary" ELSE "loop"
    /\ UNCHANGED <<correct_sheets, incorrect_sheets, unknown_sheets,
                   rc_summary, colVars, wbVars, vsVars, ccVars, vcVars, vdVars, mnVars,
                   fmVars, rrVars>>

RowCountSheet == RowCountSheetWith(AnchorCells)

\* the same iteration on a sheet whose A7 cell holds a date of any month
RowCountSheetDated == RowCountSheetWith(MonthAnchors)

\* the summary after the loop
RowCountSummary ==
    /\ rc_pc = "summary"
    /\ correct_sheets' = CountStatus(<<"Y">>, row_comparison)
    /\ incorrect_sheets' = CountStatus(<<"N">>, row_comparison)
    /\ unknown_sheets' = CountStatus(StatusChars("Unknown"), row_comparison)
    /\ rc_summary' =
            IF incorrect_sheets' = 0 /\ unknown_sheets' = 0 THEN "success"
            ELSE IF incorrect_sheets' > 0 THEN "error"
            ELSE "warning"
    /\ rc_pc' = "done"
    /\ UNCHANGED <<rc_todo, rc_read, row_comparison, colVars, wbVars, vsVars,
                   ccVars, vcVars, vdVars, mnVars,
                   fmVars, rrVars>>

----------------------------------------------------------------------------
(* validate_data: the classification of a cell of the numeric region.      *)

\* str.lower()
Lower(s) == [i \in 1..Len(s) |-> IF IsUpper(s[i]) THEN Chr(Ord(s[i]) + 32) ELSE s[i]]

\* the first index of s, from 1, holding a character of cs; 0 if none
FirstOf(cs, s) ==
    IF \E i \in 1..Len(s) : s[i] \in cs
    THEN CHOOSE i \in 1..Len(s) : s[i] \in cs /\ \A j \in 1..(i - 1) : s[j] \notin cs
    ELSE 0

\* digits, single underscores allowed between two digits
IsDigitPart(s) ==
    /\ s # <<>>
    /\ IsDigit(s[1]) /\ IsDigit(s[Len(s)])
    /\ \A i \in 1..Len(s) : IsDigit(s[i]) \/ s[i] = "_"
    /\ \A i \in 1..(Len(s) - 1) : ~(s[i] = "_" /\ s[i + 1] = "_")

\* digits [ "." [digits] ]  or  "." digits
IsPointFloat(s) ==
    LET dot == FirstOf({"."}, s)
    IN  IF dot = 0 THEN IsDigitPart(s)
        ELSE LET int  == SubSeq(s, 1, dot - 1)
                 frac == SubSeq(s, dot + 1, Len(s))
             IN  \/ IsDigitPart(int) /\ (frac = <<>> \/ IsDigitPart(frac))
                 \/ int = <<>> /\ IsDigitPart(frac)

\* [sign] digits
IsExponent(s) ==
    IF s # <<>> /\ Head(s) \in {"+", "-"} THEN IsDigitPart(Tail(s))
    ELSE IsDigitPart(s)

\* float(s) returns a number (it raises ValueError otherwise): surrounding
\* whitespace, a sign, then inf, infinity, nan or a decimal number with an
\* optional exponent
FloatParses(s) ==
    LET t    == Strip(s)
        body == IF t # <<>> /\ Head(t) \in {"+", "-"} THEN Tail(t) ELSE t
        e    == FirstOf({"e", "E"}, body)
    IN  \/ Lower(body) \in { <<"i", "n", "f">>, <<"n", "a", "n">>,
                             <<"i", "n", "f", "i", "n", "i", "t", "y">> }
        \/ e = 0 /\ IsPointFloat(body)
        \/ /\ e > 0
           /\ IsPointFloat(SubSeq(body, 1, e - 1))
           /\ IsExponent(SubSeq(body, e + 1, Len(body)))

\* two decimal digits
TwoDigits(n) == <<Chr(48 + ((n \div 10) % 10)), Chr(48 + (n % 10))>>

\* str(value)
StrOf(value) ==
    CASE value.t = "text" -> value.s
      [] value.t = "num" -> value.s
      [] value.t = "bool" -> <<"T", "r", "u", "e">>
      [] value.t = "datetime" ->
            TwoDigits(value.year \div 100) \o TwoDigits(value.year) \o <<"-">>
            \o TwoDigits(value.month) \o <<"-">> \o TwoDigits(value.day) \o <<" ">>
            \o TwoDigits(value.hour) \o <<":">> \o TwoDigits(value.minute)
            \o <<":">> \o TwoDigits(value.second)

\* pd.api.types.is_numeric_dtype(type(value)) or
\* isinstance(value, (int, float, np.number)): bool is a subclass of int
IsNumericType(value) == value.t \in {"num", "bool"}

\* set('0123456789.-')
AllowedChars == {"0", "1", "2", "3", "4", "5", "6", "7", "8", "9", ".", "-"}

\* the cascade with the special-character test before the alphabetic test
CellClassSpecialFirst(value) ==
    IF IsNa(value) THEN "Null"
    ELSE LET value_str == Strip(StrOf(value))
         IN  IF value_str = <<>> THEN "EmptyString"
             ELSE IF IsNumericType(value) THEN "Numeric"
             ELSE IF FloatParses(value_str) THEN "Numeric"
             ELSE IF ~(ToSet(value_str) \subseteq AllowedChars) THEN "SpecialChar"
             ELSE IF \E i \in 1..Len(value_str) : IsAlpha(value_str[i])
                  THEN "Alphabetic"
             ELSE "NonNumericOther"

\* the category a cell of the numeric region falls in: the issue list its
\* message is appended to (Numeric: none)
CellClass(value) ==
    IF IsNa(value) THEN "Null"
    ELSE LET value_str == Strip(StrOf(value))
         IN  IF value_str = <<>> THEN "EmptyString"
             ELSE IF IsNumericType(value) THEN "Numeric"
             ELSE IF FloatParses(value_str) THEN "Numeric"
             ELSE IF \E i \in 1..Len(value_str) : IsAlpha(value_str[i])
                  THEN "Alphabetic"
             ELSE IF ~(ToSet(value_str) \subseteq AllowedChars) THEN "SpecialChar"
             ELSE "NonNumericOther"

\* characters of the text cells of the model
CellChars == {"1", ".", "-", "e", "a", "#", " ", "_"}

\* the texts the documentation names, and some of Python's float literals
ExampleTexts ==
    { <<"1", "2", ".", "5">>, <<"a", "b", "c">>, <<"1", "2", "#", "5">>,
      <<"1", ".", "2", ".", "3">>, <<"-", "-", "5">>, <<"n", "a", "n">>,
      <<"I", "n", "f">>, <<"1", "e", "-", "1", "0">>, <<"+", "1">>,
      <<" ", "7", ".", " ">>, <<"1", "a", "#">> }

ClassifierCells ==
    { NullCell, NumCell(<<"1", "2", ".", "5">>), BoolCell,
      DateTimeCell(2023, 2, 1) }
    \cup { TextCell(s) : s \in StringsUpTo(CellChars, MaxCellLen) \cup ExampleTexts }

CcIdle == cc_pc = "idle" /\ cc_value = NullCell /\ cc_class = "none"

CcInit == cc_pc = "start" /\ cc_value \in ClassifierCells /\ cc_class = "none"

ClassifyCell ==
    /\ cc_pc = "start"
    /\ cc_class' = CellClass(cc_value)
    /\ cc_pc' = "done"
    /\ UNCHANGED <<cc_value, colVars, wbVars, vsVars, rcVars, vcVars, vdVars, mnVars,
                   fmVars, rrVars>>

----------------------------------------------------------------------------
(* validate_columns_and_cells.                                             *)

\* s.split(sep), sep one character
RECURSIVE Split(_, _)
Split(s, sep) ==
    LET i == FirstOf({sep}, s)
    IN  IF i = 0 THEN <<s>>
        ELSE <<SubSeq(s, 1, i - 1)>> \o Split(SubSeq(s, i + 1, Len(s)), sep)

\* int(s) returns a number (it raises ValueError otherwise): surrounding
\* whitespace, a sign, digits
IntParses(s) ==
    LET t    == Strip(s)
        body == IF t # <<>> /\ Head(t) \in {"+", "-"} THEN Tail(t) ELSE t
    IN  IsDigitPart(body)

\* the number int(s) returns
IntValue(s) ==
    LET t      == Strip(s)
        neg    == t # <<>> /\ Head(t) = "-"
        body   == IF t # <<>> /\ Head(t) \in {"+", "-"} THEN Tail(t) ELSE t
        digits == SelectSeq(body, IsDigit)
    IN  IF neg THEN 0 - DigitsValue(digits) ELSE DigitsValue(digits)

\* str(n) for an int
RECURSIVE NatToStr(_)
NatToStr(n) ==
    IF n < 10 THEN <<Chr(48 + n)>> ELSE NatToStr(n \div 10) \o <<Chr(48 + (n % 10))>>

IntToStr(n) == IF n < 0 THEN <<"-">> \o NatToStr(0 - n) ELSE NatToStr(n)

\* the list comprehension of lines 192-193:
\* [int(r.strip()) - 1 for r in row_input.split(",") if r.strip()]
ParseRowInput(input) ==
    LET tokens == SelectSeq(Split(input, ","), LAMBDA r : Strip(r) # <<>>)
    IN  IF \A i \in 1..Len(tokens) : IntParses(Strip(tokens[i]))
        THEN [raised |-> FALSE,
              rows |-> [i \in 1..Len(tokens) |-> IntValue(Strip(tokens[i])) - 1]]
        ELSE [raised |-> TRUE, rows |-> <<>>]

\* len(df)
NumRows(df) == Len(df.rows)

\* df.iloc[row_idx, col_idx] is inside the table (it raises IndexError
\* otherwise): a negative position counts from the end
ILocOk(df, row_idx, column_idx) ==
    /\ row_idx < NumRows(df) /\ row_idx >= 0 - NumRows(df)
    /\ column_idx < df.cols /\ column_idx >= 0 - df.cols

\* df.iloc[row_idx, col_idx], both 0-based
ILoc(df, row_idx, column_idx) ==
    LET r == IF row_idx >= 0 THEN row_idx + 1 ELSE NumRows(df) + row_idx + 1
        c == IF column_idx >= 0 THEN column_idx + 1 ELSE df.cols + column_idx + 1
    IN  df.rows[r][c]

\* str(value).strip() if not pd.isna(value) else ""
CellStr(value) == IF IsNa(value) THEN <<>> ELSE Strip(StrOf(value))

\* the last column of the table, whatever the row holds
LastColOfTable(df, row_idx) == df.cols - 1

\* last_col_with_data of a row of the template: -1 when the row is empty
LastColWithData(df, row_idx) ==
    LET with == { c \in 0..(df.cols - 1) : CellStr(ILoc(df, row_idx, c)) # <<>> }
    IN  IF with = {} THEN -1 ELSE CHOOSE c \in with : \A d \in with : d <= c

\* the cells of one row compared, columns 0..last: [validated, mismatches]
CompareRowCells(tdf, ddf, row_idx, last) ==
    LET entry(c) ==
            [row |-> row_idx + 1, column |-> c,
             cell |-> get_excel_column_name(c) \o IntToStr(row_idx + 1),
             template_value |-> CellStr(ILoc(tdf, row_idx, c)),
             data_value |-> CellStr(ILoc(ddf, row_idx, c))]
        all == [i \in 1..(last + 1) |-> entry(i - 1)]
    IN  [validated |-> all,
         mismatches |-> SelectSeq(all, LAMBDA e : e.template_value # e.data_value)]

\* the loop over valid_rows of lines 239-284:
\* [raised, validated, mismatches]; an IndexError of iloc ends the function
RECURSIVE CompareRows(_, _, _, _)
CompareRows(tdf, ddf, valid_rows, acc) ==
    IF valid_rows = <<>> THEN acc
    ELSE LET row_idx == Head(valid_rows)
         IN  IF tdf.cols > 0 /\ ~ILocOk(tdf, row_idx, 0)
             THEN [raised |-> TRUE, validated |-> <<>>, mismatches |-> <<>>]
             ELSE LET last == LastColWithData(tdf, row_idx)
                  IN  IF last < 0
                      THEN CompareRows(tdf, ddf, Tail(valid_rows), acc)
                      ELSE IF ~ILocOk(ddf, row_idx, 0)
                      THEN [raised |-> TRUE, validated |-> <<>>,
                            mismatches |-> <<>>]
                      ELSE LET r == CompareRowCells(tdf, ddf, row_idx, last)
                           IN  CompareRows(tdf, ddf, Tail(valid_rows),
                                   [raised |-> FALSE,
                                    validated |-> acc.validated \o r.validated,
                                    mismatches |-> acc.mismatches \o r.mismatches])

\* valid_rows of lines 227-235
ValidRows(tdf, ddf, mode, rows) ==
    LET rows_to_check ==
            IF mode = "All Rows" THEN [i \in 1..NumRows(tdf) |-> i - 1] ELSE rows
    IN  SelectSeq(rows_to_check,
                  LAMBDA r : r < NumRows(tdf) /\ r < NumRows(ddf))

Table(c, rows) == [cols |-> c, rows |-> rows]

\* the first c columns of a table
FirstColumns(df, c) ==
    Table(c, [i \in 1..NumRows(df) |-> SubSeq(df.rows[i], 1, c)])

\* the loop body that compares the columns present in both tables whether
\* or not the column counts match
CompareSheetCommonColumns(tdf, ddf, mode, rows) ==
    LET match == tdf.cols = ddf.cols
        c == IF tdf.cols < ddf.cols THEN tdf.cols ELSE ddf.cols
        r == CompareRows(FirstColumns(tdf, c), FirstColumns(ddf, c),
                 ValidRows(tdf, ddf, mode, rows),
                 [raised |-> FALSE, validated |-> <<>>, mismatches |-> <<>>])
    IN  [raised |-> r.raised, columns_match |-> match,
         validated |-> r.validated, mismatches |-> r.mismatches,
         sheet_valid |-> match /\ r.mismatches = <<>>]

\* the loop body of lines 214-288 for one sheet:
\* [raised, columns_match, validated, mismatches, sheet_valid]
CompareSheet(tdf, ddf, mode, rows) ==
    LET match == tdf.cols = ddf.cols
        r == IF match
             THEN CompareRows(tdf, ddf, ValidRows(tdf, ddf, mode, rows),
                      [raised |-> FALSE, validated |-> <<>>, mismatches |-> <<>>])
             ELSE [raised |-> FALSE, validated |-> <<>>, mismatches |-> <<>>]
    IN  [raised |-> r.raised, columns_match |-> match,
         validated |-> r.validated, mismatches |-> r.mismatches,
         sheet_valid |-> match /\ r.mismatches = <<>>]

\* values of the template's cells, and for each the values a data cell may
\* take in its place: another text, and a text equal to it once trimmed
TemplateCellValues == { NullCell, TextCell(<<"a">>) }

AltValues(value) ==
    IF IsNa(value) THEN { TextCell(<<"b">>), TextCell(<<" ">>) }
    ELSE { TextCell(<<"b">>), TextCell(<<"a", " ">>) }

\* the value of the data cells that have no cell of the template under them
FillerCell == TextCell(<<"b">>)

TemplateTables ==
    UNION { { Table(c, rows) : rows \in [1..r -> [1..c -> TemplateCellValues]] } :
            r \in 0..MaxRows, c \in 0..MaxCols }

\* the template's table resized to r rows and c columns
Resized(tdf, r, c) ==
    Table(c, [i \in 1..r |-> [j \in 1..c |->
                IF i <= NumRows(tdf) /\ j <= tdf.cols THEN tdf.rows[i][j]
                ELSE FillerCell]])

\* the data tables that go with a template table: the same size, one row
\* more or fewer, or one column more; and at most one cell changed
DataTables(tdf) ==
    LET dims == { <<r, c>> \in (0..MaxRows) \X (0..MaxCols) :
                    \/ c = tdf.cols /\ r \in (NumRows(tdf) - 1)..(NumRows(tdf) + 1)
                    \/ c = tdf.cols + 1 /\ r = NumRows(tdf) }
    IN  UNION { LET base == Resized(tdf, d[1], d[2])
                IN  {base} \cup
                    UNION { { Table(d[2], [base.rows EXCEPT ![p[1]][p[2]] = v]) :
                                v \in AltValues(base.rows[p[1]][p[2]]) } :
                            p \in (1..d[1]) \X (1..d[2]) }
                : d \in dims }

\* texts typed in "Rows to Validate": the default 5,6,7 and others
RowInputs ==
    { <<"5", ",", "6", ",", "7">>, <<"1">>, <<"2", ",", "1">>, <<"0">>,
      <<"0", ",", "2">>, <<"1", ",", "1">>, <<"-", "3">>, <<"1", ",", "x">>,
      <<" ", "1", " ", ",", " ", "2">>, <<"1", ",", ",", "3">> }

EmptyTable == Table(0, <<>>)

VcIdle ==
    /\ vc_pc = "idle" /\ validation_mode = "none" /\ row_input = <<>>
    /\ rows_to_validate = <<>> /\ template_df = EmptyTable /\ data_df = EmptyTable
    /\ columns_match = FALSE /\ validated_data = <<>>
    /\ text_cell_mismatches = <<>> /\ sheet_valid = FALSE

VcInit ==
    /\ vc_pc = "start"
    /\ \/ validation_mode = "All Rows" /\ row_input = <<>>
       \/ validation_mode = "Specific Rows" /\ row_input \in RowInputs
    /\ rows_to_validate = <<>>
    /\ template_df \in TemplateTables
    /\ data_df \in DataTables(template_df)
    /\ columns_match = FALSE /\ validated_data = <<>>
    /\ text_cell_mismatches = <<>> /\ sheet_valid = FALSE

\* the configuration is read: in "Specific Rows" mode the typed rows are
\* parsed, and a ValueError ends the function with an error message
ParseRows ==
    /\ vc_pc = "start"
    /\ IF validation_mode = "Specific Rows"
       THEN LET p == ParseRowInput(row_input)
            IN  /\ rows_to_validate' = p.rows
                /\ vc_pc' = IF p.raised THEN "rejected" ELSE "parsed"
       ELSE rows_to_validate' = <<>> /\ vc_pc' = "parsed"
    /\ UNCHANGED <<validation_mode, row_input, template_df, data_df,
                   columns_match, validated_data, text_cell_mismatches,
                   sheet_valid, colVars, wbVars, vsVars, rcVars, ccVars, vdVars, mnVars,
                   fmVars, rrVars>>

\* the sheet's two tables are compared
CompareSheetTables ==
    /\ vc_pc = "parsed"
    /\ LET r == CompareSheet(template_df, data_df, validation_mode,
                             rows_to_validate)
       IN  IF r.raised
           THEN /\ vc_pc' = "raised"
                /\ UNCHANGED <<columns_match, validated_data,
                               text_cell_mismatches, sheet_valid>>
           ELSE /\ vc_pc' = "done"
                /\ columns_match' = r.columns_match
                /\ validated_data' = r.validated
                /\ text_cell_mismatches' = r.mismatches
                /\ sheet_valid' = r.sheet_valid
    /\ UNCHANGED <<validation_mode, row_input, rows_to_validate, template_df,
                   data_df, colVars, wbVars, vsVars, rcVars, ccVars, vdVars, mnVars,
                   fmVars, rrVars>>

----------------------------------------------------------------------------
(* validate_data.                                                          *)

\* isinstance(value, (pd.Timestamp, datetime))
IsDatetime(value) == value.t = "datetime"

\* the datetime a structured cell holds
DatetimeOf(value) ==
    [year |-> value.year, month |-> value.month, day |-> value.day,
     hour |-> value.hour, minute |-> value.minute, second |-> value.second]

\* date_formats_to_try with the month-first formats tried before the
\* day-first ones
date_formats_month_first ==
    << [name |-> "%m.%d.%Y", fields |-> <<"m", "d", "Y">>, sep |-> ".", p |-> FALSE],
       [name |-> "%m/%d/%Y", fields |-> <<"m", "d", "Y">>, sep |-> "/", p |-> FALSE],
       [name |-> "%m-%d-%Y", fields |-> <<"m", "d", "Y">>, sep |-> "-", p |-> FALSE],
       [name |-> "%Y.%m.%d", fields |-> <<"Y", "m", "d">>, sep |-> ".", p |-> FALSE],
       [name |-> "%Y/%m/%d", fields |-> <<"Y", "m", "d">>, sep |-> "/", p |-> FALSE],
       [name |-> "%Y-%m-%d", fields |-> <<"Y", "m", "d">>, sep |-> "-", p |-> FALSE],
       [name |-> "%d.%m.%Y", fields |-> <<"d", "m", "Y">>, sep |-> ".", p |-> FALSE],
       [name |-> "%d/%m/%Y", fields |-> <<"d", "m", "Y">>, sep |-> "/", p |-> FALSE],
       [name |-> "%d-%m-%Y", fields |-> <<"d", "m", "Y">>, sep |-> "-", p |-> FALSE] >>

\* date_formats_to_try: the strptime fields of each format and the character
\* between them
date_formats_to_try ==
    << [name |-> "%d.%m.%Y", fields |-> <<"d", "m", "Y">>, sep |-> ".", p |-> FALSE],
       [name |-> "%d/%m/%Y", fields |-> <<"d", "m", "Y">>, sep |-> "/", p |-> FALSE],
       [name |-> "%d-%m-%Y", fields |-> <<"d", "m", "Y">>, sep |-> "-", p |-> FALSE],
       [name |-> "%Y.%m.%d", fields |-> <<"Y", "m", "d">>, sep |-> ".", p |-> FALSE],
       [name |-> "%Y/%m/%d", fields |-> <<"Y", "m", "d">>, sep |-> "/", p |-> FALSE],
       [name |-> "%Y-%m-%d", fields |-> <<"Y", "m", "d">>, sep |-> "-", p |-> FALSE],
       [name |-> "%m.%d.%Y", fields |-> <<"m", "d", "Y">>, sep |-> ".", p |-> FALSE],
       [name |-> "%m/%d/%Y", fields |-> <<"m", "d", "Y">>, sep |-> "/", p |-> FALSE],
       [name |-> "%m-%d-%Y", fields |-> <<"m", "d", "Y">>, sep |-> "-", p |-> FALSE] >>

\* time_formats_to_try: p says that the format ends in " %p"
time_formats_to_try ==
    << [name |-> "%H:%M:%S", fields |-> <<"H", "M", "S">>, sep |-> ":", p |-> FALSE],
       [name |-> "%H:%M", fields |-> <<"H", "M">>, sep |-> ":", p |-> FALSE],
       [name |-> "%I:%M:%S %p", fields |-> <<"I", "M", "S">>, sep |-> ":", p |-> TRUE],
       [name |-> "%I:%M %p", fields |-> <<"I", "M">>, sep |-> ":", p |-> TRUE] >>

\* the regular expression strptime compiles a directive to matches the
\* whole of the text f
DirectiveMatches(dir, f) ==
    CASE dir = "d" ->
            \/ Len(f) = 2 /\ f[1] = "3" /\ f[2] \in {"0", "1"}
            \/ Len(f) = 2 /\ f[1] \in {"1", "2"} /\ IsDigit(f[2])
            \/ Len(f) = 2 /\ f[1] \in {"0", " "} /\ IsDigit(f[2]) /\ f[2] # "0"
            \/ Len(f) = 1 /\ IsDigit(f[1]) /\ f[1] # "0"
      [] dir \in {"m", "I"} ->
            \/ Len(f) = 2 /\ f[1] = "1" /\ f[2] \in {"0", "1", "2"}
            \/ Len(f) = 2 /\ f[1] = "0" /\ IsDigit(f[2]) /\ f[2] # "0"
            \/ Len(f) = 1 /\ IsDigit(f[1]) /\ f[1] # "0"
      [] dir = "Y" -> Len(f) = 4 /\ AllDigits(f)
      [] dir = "H" ->
            \/ Len(f) = 2 /\ f[1] = "2" /\ f[2] \in {"0", "1", "2", "3"}
            \/ Len(f) = 2 /\ f[1] \in {"0", "1"} /\ IsDigit(f[2])
            \/ Len(f) = 1 /\ IsDigit(f[1])
      [] dir = "M" ->
            \/ Len(f) = 2 /\ f[1] \in {"0", "1", "2", "3", "4", "5"} /\ IsDigit(f[2])
            \/ Len(f) = 1 /\ IsDigit(f[1])
      [] dir = "S" ->
            \/ Len(f) = 2 /\ f[1] = "6" /\ f[2] \in {"0", "1"}
            \/ Len(f) = 2 /\ f[1] \in {"0", "1", "2", "3", "4", "5"} /\ IsDigit(f[2])
            \/ Len(f) = 1 /\ IsDigit(f[1])

\* the last of the parts of a text in a format that ends in " %p", cut at
\* its first blank ws: the text of the last field, and what follows the
\* blanks in lower case
CutMeridiem(parts, last, ws) ==
    SubSeq(parts, 1, Len(parts) - 1)
    \o << SubSeq(last, 1, ws - 1),
          IF ws > 0 THEN Lower(LStrip(SubSeq(last, ws, Len(last)))) ELSE <<>> >>

\* the texts of the fields of parts, followed for a format that ends in
\* " %p" by the text of %p; <<>> when there are more or fewer parts than
\* fields
FieldTexts(parts, fmt) ==
    IF Len(parts) # Len(fmt.fields) THEN <<>>
    ELSE IF fmt.p
    THEN CutMeridiem(parts, parts[Len(parts)], FirstOf({" "}, parts[Len(parts)]))
    ELSE parts

\* the format's regular expression matches the whole text
FieldsMatch(fmt, texts) ==
    /\ texts # <<>>
    /\ \A i \in 1..Len(fmt.fields) : DirectiveMatches(fmt.fields[i], texts[i])
    /\ fmt.p => texts[Len(texts)] \in { <<"a", "m">>, <<"p", "m">> }

\* int() of the text the directive dir matched; the fields a format lacks
\* are those of 1900-01-01 00:00:00
FieldValue(fmt, texts, dir) ==
    IF \E i \in 1..Len(fmt.fields) : fmt.fields[i] = dir
    THEN DigitsValue(SelectSeq(texts[CHOOSE i \in 1..Len(fmt.fields) :
                                        fmt.fields[i] = dir], IsDigit))
    ELSE IF dir = "Y" THEN 1900 ELSE IF dir \in {"m", "d"} THEN 1 ELSE 0

\* the hour of the day of hour h of the 12-hour clock
Hour24(h, meridiem) ==
    IF meridiem = <<"p", "m">> THEN (IF h = 12 THEN 12 ELSE h + 12)
    ELSE (IF h = 12 THEN 0 ELSE h)

\* the datetime of the values v of the directives: [ok |-> FALSE] when they
\* are no date or time
MakeDatetime(v, hour) ==
    IF v["Y"] >= 1 /\ v["d"] <= CalendarDays(v["m"], v["Y"]) /\ v["S"] <= 59
    THEN [ok |-> TRUE,
          datetime |-> [year |-> v["Y"], month |-> v["m"], day |-> v["d"],
                        hour |-> hour, minute |-> v["M"], second |-> v["S"]]]
    ELSE [ok |-> FALSE]

StrptimeTexts(fmt, texts) ==
    IF FieldsMatch(fmt, texts)
    THEN MakeDatetime(
            [dir \in {"Y", "m", "d", "H", "I", "M", "S"} |->
                FieldValue(fmt, texts, dir)],
            IF fmt.p THEN Hour24(FieldValue(fmt, texts, "I"), texts[Len(texts)])
            ELSE FieldValue(fmt, texts, "H"))
    ELSE [ok |-> FALSE]

\* datetime.strptime(s, fmt): [ok |-> FALSE] is ValueError (the text does
\* not match the format, text remains after the match, or the fields are no
\* date or time)
Strptime(s, fmt) == StrptimeTexts(fmt, FieldTexts(Split(s, fmt.sep), fmt))

\* the position in formats of the first format that parses s; 0 if none
FirstFormat(s, formats) ==
    IF \E k \in 1..Len(formats) : Strptime(s, formats[k]).ok
    THEN CHOOSE k \in 1..Len(formats) :
            /\ Strptime(s, formats[k]).ok
            /\ \A j \in 1..(k - 1) : ~Strptime(s, formats[j]).ok
    ELSE 0

\* a detection that goes on after a cell was recognised: the format of the
\* last cell of the column that is a datetime or that some format parses
RECURSIVE DetectFormatLastCell(_, _, _)
DetectFormatLastCell(column, i, formats) ==
    IF i > Len(column) THEN "None"
    ELSE LET rest == DetectFormatLastCell(column, i + 1, formats)
         IN  IF rest # "None" THEN rest
             ELSE IF IsNa(column[i]) THEN "None"
             ELSE IF IsDatetime(column[i]) THEN "datetime_object"
             ELSE IF FirstFormat(Strip(StrOf(column[i])), formats) > 0
             THEN formats[FirstFormat(Strip(StrOf(column[i])), formats)].name
             ELSE "None"

\* the detected format once the formats were tried on the text of cell i:
\* k is the position of the first format that parses it, 0 if none
RECURSIVE DetectFormat(_, _, _)
DetectedOrNext(column, i, formats, k) ==
    IF k > 0 THEN formats[k].name ELSE DetectFormat(column, i + 1, formats)

\* the detection loops of lines 632-678, from cell i of the column on:
\* "None", "datetime_object" or the name of a format
DetectFormat(column, i, formats) ==
    IF i > Len(column) THEN "None"
    ELSE IF IsNa(column[i]) THEN DetectFormat(column, i + 1, formats)
    ELSE IF IsDatetime(column[i]) THEN "datetime_object"
    ELSE DetectedOrNext(column, i, formats,
                        FirstFormat(Strip(StrOf(column[i])), formats))

\* the position in formats of the format the text s is parsed with: the
\* detected one, or when none was detected the first that parses s, 0 if none
FormatFor(s, detected, formats) ==
    IF detected = "None" THEN FirstFormat(s, formats)
    ELSE CHOOSE k \in 1..Len(formats) : formats[k].name = detected

\* the outcome of parsing the text s: r is what strptime gave
Parsed(r, s, failure) ==
    IF r.ok THEN [status |-> "parsed", datetime |-> r.datetime]
    ELSE [status |-> failure, text |-> s]

ParseText(s, k, formats, failure) ==
    IF k = 0 THEN [status |-> failure, text |-> s]
    ELSE Parsed(Strptime(s, formats[k]), s, failure)

\* "Parse date" and "Parse time" of lines 724-794 for one non-null cell:
\* status "parsed" with the datetime, "mismatch" (the detected format does
\* not parse the text), "unparsed" (no format was detected and none parses
\* the text), or "none": the column was detected as datetime_object and the
\* cell is no datetime, so that parsed_date (parsed_time) stays None
ParseCell(value, detected, formats) ==
    IF IsDatetime(value)
    THEN [status |-> "parsed", datetime |-> DatetimeOf(value)]
    ELSE IF detected = "datetime_object" THEN [status |-> "none"]
    ELSE ParseText(Strip(StrOf(value)),
                   FormatFor(Strip(StrOf(value)), detected, formats), formats,
                   IF detected = "None" THEN "unparsed" ELSE "mismatch")

\* datetime.combine(parsed_date.date(), parsed_time.time())
Combine(parsed_date, parsed_time) ==
    [year |-> parsed_date.year, month |-> parsed_date.month,
     day |-> parsed_date.day, hour |-> parsed_time.hour,
     minute |-> parsed_time.minute, second |-> parsed_time.second]

\* lines 724-809 for a row whose date and time are not null: d and t are
\* what parsing the date and the time gives
DateTimeParsed(acc, actual_row_num, cfg, d, t) ==
    IF d.status \in {"mismatch", "unparsed"}
    THEN [acc EXCEPT
            !.results.datetime_format_issues =
                Append(@, [row |-> actual_row_num, column |-> cfg.date_col,
                           what |-> d.status, text |-> d.text]),
            !.results.is_valid = FALSE,
            !.all_valid = FALSE]
    ELSE IF t.status \in {"mismatch", "unparsed"}
    THEN [acc EXCEPT
            !.results.datetime_format_issues =
                Append(@, [row |-> actual_row_num, column |-> cfg.time_col,
                           what |-> t.status, text |-> t.text]),
            !.results.is_valid = FALSE,
            !.all_valid = FALSE]
    ELSE IF d.status = "parsed" /\ t.status = "parsed"
    THEN [acc EXCEPT
            !.combined = Append(@, [row |-> actual_row_num,
                                    datetime |-> Combine(d.datetime, t.datetime)])]
    ELSE acc

\* the body of the loop of lines 700-809 for one row. acc carries the
\* sheet's results, all_valid and combined_datetimes
DateTimeRow(acc, actual_row_num, date_val, time_val, cfg) ==
    IF IsNa(date_val)
    THEN [acc EXCEPT
            !.results.datetime_issues =
                Append(@, [row |-> actual_row_num, column |-> cfg.date_col,
                           what |-> "null date"]),
            !.results.is_valid = FALSE,
            !.all_valid = FALSE]
    ELSE IF IsNa(time_val)
    THEN [acc EXCEPT
            !.results.datetime_issues =
                Append(@, [row |-> actual_row_num, column |-> cfg.time_col,
                           what |-> "null time"]),
            !.results.is_valid = FALSE,
            !.all_valid = FALSE]
    ELSE DateTimeParsed(acc, actual_row_num, cfg,
            ParseCell(date_val, acc.results.detected_date_format,
                      date_formats_to_try),
            ParseCell(time_val, acc.results.detected_time_format,
                      time_formats_to_try))

\* the loop of lines 700-809 from row i of date_data on
RECURSIVE DateTimeRows(_, _, _, _, _)
DateTimeRows(acc, i, date_data, time_data, cfg) ==
    IF i > Len(date_data) THEN acc
    ELSE DateTimeRows(
            DateTimeRow(acc, (cfg.datetime_start_row - 1) + i, date_data[i],
                        time_data[i], cfg),
            i + 1, date_data, time_data, cfg)

\* days before January 1st of year y, counted from 0001-01-01
DaysBeforeYear(y) ==
    (y - 1) * 365 + ((y - 1) \div 4) - ((y - 1) \div 100) + ((y - 1) \div 400)

\* days of the year y before the first of month m
RECURSIVE DaysBeforeMonth(_, _)
DaysBeforeMonth(y, m) ==
    IF m = 1 THEN 0 ELSE DaysBeforeMonth(y, m - 1) + CalendarDays(m - 1, y)

\* date.toordinal()
ToOrdinal(dt) == DaysBeforeYear(dt.year) + DaysBeforeMonth(dt.year, dt.month) + dt.day

SecondOfDay(dt) == dt.hour * 3600 + dt.minute * 60 + dt.second

\* (dt2 - dt1).total_seconds()
TotalSeconds(dt1, dt2) ==
    (ToOrdinal(dt2) - ToOrdinal(dt1)) * 86400 + SecondOfDay(dt2) - SecondOfDay(dt1)

\* the date of day n of the year y, n counted from 1, at second sec of the day
DateInYear(y, n, sec) ==
    [year |-> y,
     month |-> CHOOSE m \in 1..12 :
                  DaysBeforeMonth(y, m) < n /\ n <= DaysBeforeMonth(y, m) + CalendarDays(m, y),
     day |-> n - DaysBeforeMonth(y, CHOOSE m \in 1..12 :
                  DaysBeforeMonth(y, m) < n /\ n <= DaysBeforeMonth(y, m) + CalendarDays(m, y)),
     hour |-> sec \div 3600, minute |-> (sec % 3600) \div 60, second |-> sec % 60]

\* date.fromordinal(n) at second sec of the day
FromOrdinal(n, sec) ==
    DateInYear(CHOOSE y \in (n \div 366)..((n \div 365) + 1) :
                    DaysBeforeYear(y) < n /\ n <= DaysBeforeYear(y + 1),
               n - DaysBeforeYear(CHOOSE y \in (n \div 366)..((n \div 365) + 1) :
                    DaysBeforeYear(y) < n /\ n <= DaysBeforeYear(y + 1)),
               sec)

\* dt + timedelta(seconds=s)
AddSeconds(dt, s) ==
    FromOrdinal(ToOrdinal(dt) + ((SecondOfDay(dt) + s) \div 86400),
                (SecondOfDay(dt) + s) % 86400)

\* how often x is in seq
Count(x, seq) == Cardinality({ i \in 1..Len(seq) : seq[i] = x })

\* the value counted most often, the one seen last among those counted
\* equally often
MostCommonLastTied(seq) ==
    seq[CHOOSE i \in 1..Len(seq) :
            /\ \A j \in 1..Len(seq) : Count(seq[j], seq) <= Count(seq[i], seq)
            /\ \A j \in (i + 1)..Len(seq) : Count(seq[j], seq) < Count(seq[i], seq)]

\* Counter(seq).most_common(1)[0][0]: the value counted most often, the one
\* seen first among those counted equally often
MostCommon(seq) ==
    seq[CHOOSE i \in 1..Len(seq) :
            /\ \A j \in 1..Len(seq) : Count(seq[j], seq) <= Count(seq[i], seq)
            /\ \A j \in 1..(i - 1) : Count(seq[j], seq) < Count(seq[i], seq)]

\* interval_type of lines 828-840; int() truncates towards zero, and the
\* hours label is the text of most_common_interval / 3600 with 2 decimals
IntervalType(most_common_interval) ==
    IF most_common_interval = 60 THEN [label |-> "1 minute"]
    ELSE IF most_common_interval = 3600 THEN [label |-> "1 hour"]
    ELSE IF most_common_interval = 86400 THEN [label |-> "1 day"]
    ELSE IF most_common_interval < 3600
    THEN [label |-> "minutes",
          n |-> IF most_common_interval >= 0 THEN most_common_interval \div 60
                ELSE 0 - ((0 - most_common_interval) \div 60)]
    ELSE [label |-> "hours", seconds |-> most_common_interval]

Abs(n) == IF n < 0 THEN 0 - n ELSE n

\* intervals of lines 814-819
Intervals(c) ==
    [i \in 1..(Len(c) - 1) |-> TotalSeconds(c[i].datetime, c[i + 1].datetime)]

\* the loop of lines 846-865 without the tolerance of a second
SequenceIssuesNoTolerance(c, intervals, most_common_interval) ==
    LET issue(i) == [row1 |-> c[i].row, row2 |-> c[i + 1].row,
                     expected |-> AddSeconds(c[i].datetime, most_common_interval),
                     actual |-> c[i + 1].datetime]
        Step[i \in 0..Len(intervals)] ==
            IF i = 0 THEN <<>>
            ELSE IF intervals[i] # most_common_interval
            THEN Append(Step[i - 1], issue(i))
            ELSE Step[i - 1]
    IN  Step[Len(intervals)]

\* the loop of lines 846-865: one issue for each consecutive pair whose
\* interval is not the most common one, a second allowed
SequenceIssues(c, intervals, most_common_interval) ==
    LET issue(i) == [row1 |-> c[i].row, row2 |-> c[i + 1].row,
                     expected |-> AddSeconds(c[i].datetime, most_common_interval),
                     actual |-> c[i + 1].datetime]
        Step[i \in 0..Len(intervals)] ==
            IF i = 0 THEN <<>>
            ELSE IF Abs(intervals[i] - most_common_interval) > 1
            THEN Append(Step[i - 1], issue(i))
            ELSE Step[i - 1]
    IN  Step[Len(intervals)]

\* the sequence check recording its issues without touching the flags
SequenceCheckedFlagsKept(acc, most_common_interval, issues) ==
    [acc EXCEPT
        !.results.detected_interval = IntervalType(most_common_interval),
        !.results.datetime_sequence_issues = @ \o issues]

SequenceChecked(acc, most_common_interval, issues) ==
    [acc EXCEPT
        !.results.detected_interval = IntervalType(most_common_interval),
        !.results.datetime_sequence_issues = @ \o issues,
        !.results.is_valid = IF issues = <<>> THEN @ ELSE FALSE,
        !.all_valid = IF issues = <<>> THEN @ ELSE FALSE]

\* the sequence check of lines 811-865
SequenceCheck(acc) ==
    IF Len(acc.combined) < 2 THEN acc
    ELSE SequenceChecked(acc, MostCommon(Intervals(acc.combined)),
            SequenceIssues(acc.combined, Intervals(acc.combined),
                           MostCommon(Intervals(acc.combined))))

\* df.iloc[start:, column_idx] as a list
ColumnFrom(df, start, column_idx) ==
    [i \in 1..(NumRows(df) - start) |-> ILoc(df, start + i - 1, column_idx)]

\* lines 600-696: the two columns are noted and their formats detected
Detected(acc, cfg, date_data, time_data) ==
    [acc EXCEPT
        !.results.columns_validated =
            @ \o << [column |-> cfg.date_col, check |-> "date"],
                    [column |-> cfg.time_col, check |-> "time"] >>,
        !.results.detected_date_format =
            DetectFormat(date_data, 1, date_formats_to_try),
        !.results.detected_time_format =
            DetectFormat(time_data, 1, time_formats_to_try)]

DateTimeColumns(acc, cfg, date_data, time_data) ==
    [SequenceCheck(DateTimeRows(Detected(acc, cfg, date_data, time_data), 1,
                                date_data, time_data, cfg))
        EXCEPT !.results.total_rows_validated = Len(date_data)]

\* the date and time validation of lines 597-868, its guard true and the two
\* column positions inside the table
DateTimePass(acc, df, cfg) ==
    DateTimeColumns(acc, cfg,
        ColumnFrom(df, cfg.datetime_start_row - 1, cfg.date_col_idx),
        ColumnFrom(df, cfg.datetime_start_row - 1, cfg.time_col_idx))

\* last_col_with_data of lines 873-876: -1 when every cell is null
LastColumnWithData(df) ==
    LET with == { c \in 0..(df.cols - 1) :
                    \E r \in 0..(NumRows(df) - 1) : ~IsNa(ILoc(df, r, c)) }
    IN  IF with = {} THEN -1 ELSE CHOOSE c \in with : \A d \in with : d <= c

\* lines 896-951 for one cell: class is its category, issue its message
NumericClassified(acc, class, issue) ==
    CASE class = "Null" ->
            [acc EXCEPT !.results.null_issues = Append(@, issue),
                        !.results.is_valid = FALSE, !.all_valid = FALSE]
      [] class = "EmptyString" ->
            [acc EXCEPT !.results.empty_cell_issues = Append(@, issue),
                        !.results.is_valid = FALSE, !.all_valid = FALSE]
      [] class = "Numeric" -> acc
      [] class = "Alphabetic" ->
            [acc EXCEPT !.results.alphabetical_issues = Append(@, issue),
                        !.results.is_valid = FALSE, !.all_valid = FALSE]
      [] class = "SpecialChar" ->
            [acc EXCEPT !.results.special_char_issues = Append(@, issue),
                        !.results.is_valid = FALSE, !.all_valid = FALSE]
      [] class = "NonNumericOther" ->
            [acc EXCEPT !.results.numeric_issues = Append(@, issue),
                        !.results.is_valid = FALSE, !.all_valid = FALSE]

\* the body of the loop of lines 893-951 for one cell
NumericCell(acc, column_idx, row_num, value) ==
    NumericClassified(
        [acc EXCEPT !.results.total_cells_validated = @ + 1],
        CellClass(value),
        [cell |-> get_excel_column_name(column_idx) \o IntToStr(row_num),
         row |-> row_num, column |-> column_idx, text |-> CellStr(value)])

\* the cells of one column from 0-based row r on
RECURSIVE NumericColumn(_, _, _, _)
NumericColumn(acc, df, column_idx, r) ==
    IF r >= NumRows(df) THEN acc
    ELSE NumericColumn(NumericCell(acc, column_idx, r + 1, ILoc(df, r, column_idx)),
                       df, column_idx, r + 1)

\* the loop of lines 882-951 over the columns column_idx..last
RECURSIVE NumericColumns(_, _, _, _, _)
NumericColumns(acc, df, column_idx, last, start) ==
    IF column_idx > last THEN acc
    ELSE NumericColumns(
            NumericColumn(
                [acc EXCEPT !.results.columns_validated =
                                Append(@, [column |-> get_excel_column_name(column_idx),
                                           check |-> "numeric"])],
                df, column_idx, start),
            df, column_idx + 1, last, start)

\* the numeric validation of lines 871-951. A negative start column makes
\* the first turn of the loop index df.columns from the end: IndexError
\* when the table has fewer columns, and otherwise get_excel_column_name is
\* called with a negative index, whose loop never ends
NumericPass(acc, df, cfg) ==
    IF /\ NumRows(df) > cfg.numeric_start_row - 1
       /\ cfg.numeric_start_col_idx < df.cols
       /\ cfg.numeric_start_col_idx <= LastColumnWithData(df)
    THEN IF cfg.numeric_start_col_idx < 0 - df.cols
         THEN [acc EXCEPT !.outcome = "raised"]
         ELSE IF cfg.numeric_start_col_idx < 0
         THEN [acc EXCEPT !.outcome = "hung"]
         ELSE NumericColumns(acc, df, cfg.numeric_start_col_idx,
                             LastColumnWithData(df), cfg.numeric_start_row - 1)
    ELSE acc

\* validation_results[sheet_name] of lines 574-590
NewResults ==
    [datetime_issues |-> <<>>, datetime_format_issues |-> <<>>,
     datetime_sequence_issues |-> <<>>, numeric_issues |-> <<>>,
     null_issues |-> <<>>, special_char_issues |-> <<>>,
     alphabetical_issues |-> <<>>, empty_cell_issues |-> <<>>,
     is_valid |-> TRUE, total_rows_validated |-> 0, total_cells_validated |-> 0,
     columns_validated |-> <<>>, detected_date_format |-> "None",
     detected_time_format |-> "None", detected_interval |-> [label |-> "None"]]

\* the guard of line 597
DateTimeGuard(df, cfg) ==
    /\ NumRows(df) > cfg.datetime_start_row - 1
    /\ cfg.date_col_idx < df.cols
    /\ cfg.time_col_idx < df.cols

\* the body of the loop of lines 572-951 for one sheet, from the sheet's new
\* results acc on
SheetPasses(acc, df, cfg) ==
    IF DateTimeGuard(df, cfg)
    THEN IF cfg.date_col_idx < 0 - df.cols \/ cfg.time_col_idx < 0 - df.cols
         THEN [acc EXCEPT !.outcome = "raised"]
         ELSE NumericPass(DateTimePass(acc, df, cfg), df, cfg)
    ELSE NumericPass(acc, df, cfg)

\* the body of the loop of lines 572-951 for one sheet:
\* [results, all_valid, combined, outcome], outcome "ok", or "raised" when
\* df.columns[...] raises IndexError, or "hung"
ValidateSheetData(df, cfg, valid_so_far) ==
    SheetPasses([results |-> NewResults, all_valid |-> valid_so_far,
                 combined |-> <<>>, outcome |-> "ok"], df, cfg)

\* the conversion of lines 558-565: the labels as read from the widgets
\* (.upper().strip()) and their indexes; raised when column_letter_to_index
\* raises
ColumnConfig(typed, datetime_row, numeric_row) ==
    LET d == Strip(Upper(typed[1]))
        t == Strip(Upper(typed[2]))
        n == Strip(Upper(typed[3]))
        di == column_letter_to_index(d)
        ti == column_letter_to_index(t)
        ni == column_letter_to_index(n)
    IN  [raised |-> di.raised \/ ti.raised \/ ni.raised,
         date_col |-> d, time_col |-> t, numeric_start_col |-> n,
         date_col_idx |-> di.value, time_col_idx |-> ti.value,
         numeric_start_col_idx |-> ni.value,
         datetime_start_row |-> datetime_row, numeric_start_row |-> numeric_row]

\* texts typed in "Date Column", "Time Column" and "Numeric Data Starting
\* Column": the defaults A, B, C, the same in lower case with blanks, labels
\* beyond the table, and texts that are no column label
TypedLabels ==
    { << <<"A">>, <<"B">>, <<"C">> >>,
      << <<"a">>, <<" ", "b">>, <<"c", " ">> >>,
      << <<"A">>, <<"B">>, <<"B">> >>,
      << <<"A", "A">>, <<"B">>, <<"C">> >>,
      << <<"A", "1">>, <<"B">>, <<"C">> >>,
      << <<"A">>, <<"B">>, <<"1">> >>,
      << <<"A">>, <<"B">>, <<>> >>,
      << <<"$">>, <<"B">>, <<"C">> >>,
      << <<"A">>, <<"@">>, <<"C">> >> }

\* number_input(min_value=1): the start rows typed
StartRows == { <<1, 1>>, <<1, 2>>, <<2, 2>> }

\* rows of a data sheet: a date, a time and a value
DataRowPool ==
    { << TextCell(<<"0", "9", ".", "0", "1", ".", "2", "0", "2", "6">>),
         TextCell(<<"2", "3", ":", "0", "0">>), NumCell(<<"1", ".", "5">>) >>,
      << TextCell(<<"1", "0", ".", "0", "1", ".", "2", "0", "2", "6">>),
         TextCell(<<"2", "3", ":", "0", "1">>), TextCell(<<"a">>) >>,
      << DateTimeCell(2026, 1, 11),
         TextCell(<<"1", "1", ":", "0", "0", " ", "P", "M">>), NullCell >>,
      << NullCell, TextCell(<<"x">>), TextCell(<<"1", "#">>) >> }

\* longest data sheet
MaxDataRows == 2

\* the tables of the data sheets: no cell at all, or rows of three cells
DataSheetTables ==
    {EmptyTable} \cup
    UNION { { Table(3, rows) : rows \in [1..r -> DataRowPool] } : r \in 1..MaxDataRows }

\* cells of a date column: a date that parses as D/M/Y and as M/D/Y, one
\* that parses as M/D/Y only, two D.M.Y dates, a Y-M-D date, text that is
\* no date, an empty cell and a date-time of the workbook
DateCellPool ==
    { TextCell(<<"0", "1", "/", "0", "2", "/", "2", "0", "2", "4">>),
      TextCell(<<"0", "2", "/", "1", "3", "/", "2", "0", "2", "4">>),
      TextCell(<<"0", "9", ".", "0", "1", ".", "2", "0", "2", "6">>),
      TextCell(<<"1", "0", ".", "0", "1", ".", "2", "0", "2", "6">>),
      TextCell(<<"2", "0", "2", "6", "-", "0", "1", "-", "0", "9">>),
      TextCell(<<"n", "o", "t", "-", "a", "-", "d", "a", "t", "e">>),
      NullCell,
      DateTimeCell(2026, 1, 11) }

\* cells of a time column: H:M, H:M:S, h:M AM/PM and text that is no time
TimeCellPool ==
    { TextCell(<<"2", "3", ":", "0", "0">>),
      TextCell(<<"2", "3", ":", "0", "1", ":", "0", "0">>),
      TextCell(<<"1", "1", ":", "0", "0", " ", "P", "M">>),
      TextCell(<<"x">>) }

\* rows of a sheet of dates and times, a date, a time and a value: every
\* date at 23:00, and every time on the two D.M.Y dates
DatedRowPool ==
    { <<d, TextCell(<<"2", "3", ":", "0", "0">>), NumCell(<<"1", ".", "5">>)>> :
        d \in DateCellPool }
    \cup
    { <<TextCell(d \o <<".", "0", "1", ".", "2", "0", "2", "6">>), t,
        NumCell(<<"1", ".", "5">>)>> :
        d \in { <<"0", "9">>, <<"1", "0">> }, t \in TimeCellPool }

\* longest sheet of dates and times
MaxDatedRows == 3

DatedSheetTables ==
    UNION { { Table(3, rows) : rows \in [1..r -> DatedRowPool] } : r \in 1..MaxDatedRows }

\* rows of a sheet of four columns, a date, a time and two values: two
\* rows without fault a day apart, a row with a value float() rejects, a
\* row with no date, a letter and an empty cell, and a row with a text
\* that is no date, a special character and a cell of one blank
IssueRowPool ==
    { << TextCell(<<"0", "9", ".", "0", "1", ".", "2", "0", "2", "6">>),
         TextCell(<<"2", "3", ":", "0", "0">>),
         NumCell(<<"1", ".", "5">>), NumCell(<<"2">>) >>,
      << TextCell(<<"1", "0", ".", "0", "1", ".", "2", "0", "2", "6">>),
         TextCell(<<"2", "3", ":", "0", "0">>),
         NumCell(<<"1", ".", "5">>), NumCell(<<"2">>) >>,
      << TextCell(<<"0", "9", ".", "0", "1", ".", "2", "0", "2", "6">>),
         TextCell(<<"2", "3", ":", "0", "0">>),
         TextCell(<<"1", "-">>), NumCell(<<"2">>) >>,
      << NullCell, TextCell(<<"2", "3", ":", "0", "0">>),
         TextCell(<<"a">>), NullCell >>,
      << TextCell(<<"n", "o", "t", "-", "a", "-", "d", "a", "t", "e">>),
         TextCell(<<"2", "3", ":", "0", "0">>),
         TextCell(<<"1", "#">>), TextCell(<<" ">>) >> }

\* longest sheet built from any rows of IssueRowPool
MaxIssueRows == 2

\* three rows without fault, the third a day before the second
BrokenSequenceRows ==
    << << TextCell(<<"0", "9", ".", "0", "1", ".", "2", "0", "2", "6">>),
          TextCell(<<"2", "3", ":", "0", "0">>),
          NumCell(<<"1", ".", "5">>), NumCell(<<"2">>) >>,
       << TextCell(<<"1", "0", ".", "0", "1", ".", "2", "0", "2", "6">>),
          TextCell(<<"2", "3", ":", "0", "0">>),
          NumCell(<<"1", ".", "5">>), NumCell(<<"2">>) >>,
       << TextCell(<<"0", "9", ".", "0", "1", ".", "2", "0", "2", "6">>),
          TextCell(<<"2", "3", ":", "0", "0">>),
          NumCell(<<"1", ".", "5">>), NumCell(<<"2">>) >> >>

IssueSheetTables ==
    { Table(4, BrokenSequenceRows) } \cup
    UNION { { Table(4, rows) : rows \in [1..r -> IssueRowPool] } : r \in 1..MaxIssueRows }

\* sheet_names of the data file
DataSheetLists ==
    { << <<"J", "a", "n">> >>, << <<"J", "a", "n">>, <<"F", "e", "b">> >> }

NoConfig ==
    [raised |-> FALSE, date_col |-> <<>>, time_col |-> <<>>,
     numeric_start_col |-> <<>>, date_col_idx |-> 0, time_col_idx |-> 0,
     numeric_start_col_idx |-> 0, datetime_start_row |-> 1,
     numeric_start_row |-> 1]

VdIdle ==
    /\ vd_pc = "idle" /\ vd_typed = <<>> /\ datetime_start_row = 1
    /\ numeric_start_row = 1 /\ vd_config = NoConfig /\ vd_todo = <<>>
    /\ vd_read = <<>> /\ validation_results = <<>> /\ all_valid = TRUE

VdInit ==
    /\ vd_pc = "start"
    /\ vd_typed \in TypedLabels
    /\ \E p \in StartRows : datetime_start_row = p[1] /\ numeric_start_row = p[2]
    /\ vd_config = NoConfig /\ vd_todo = <<>> /\ vd_read = <<>>
    /\ validation_results = <<>> /\ all_valid = TRUE

\* the widgets are read and the labels converted (lines 514-570)
ValidateDataConfig ==
    /\ vd_pc = "start"
    /\ LET c == ColumnConfig(vd_typed, datetime_start_row, numeric_start_row)
       IN  IF c.raised
           THEN vd_pc' = "rejected" /\ UNCHANGED <<vd_config, vd_todo>>
           ELSE vd_pc' = "loop" /\ vd_config' = c /\ vd_todo' = data_sheet_names
    /\ UNCHANGED <<vd_typed, datetime_start_row, numeric_start_row, vd_read,
                   validation_results, all_valid, colVars, wbVars, vsVars,
                   rcVars, ccVars, vcVars, mnVars,
                   fmVars, rrVars>>

\* one turn of the loop over the sheets of the data file (lines 572-951),
\* the table of the sheet being one of tables
ValidateDataSheetOf(tables) ==
    /\ vd_pc = "loop" /\ vd_todo # <<>>
    /\ \E df \in tables :
        \E r \in { ValidateSheetData(df, vd_config, all_valid) } :
            /\ vd_read' = Append(vd_read, [sheet |-> Head(vd_todo), df |-> df,
                                           combined_datetimes |-> r.combined])
            /\ validation_results' =
                    Append(validation_results,
                           [sheet |-> Head(vd_todo), results |-> r.results])
            /\ all_valid' = r.all_valid
            /\ vd_pc' = IF r.outcome = "ok" THEN "loop" ELSE r.outcome
    /\ vd_todo' = Tail(vd_todo)
    /\ UNCHANGED <<vd_typed, datetime_start_row, numeric_start_row, vd_config,
                   colVars, wbVars, vsVars, rcVars, ccVars, vcVars, mnVars,
                   fmVars, rrVars>>

ValidateDataSheet == ValidateDataSheetOf(DataSheetTables)

\* times of one evening, a minute apart, a minute and a second apart and a
\* minute and two seconds apart
SequenceTimePool ==
    { <<"2", "3", ":", "0", "0", ":", "0", "0">>,
      <<"2", "3", ":", "0", "1", ":", "0", "0">>,
      <<"2", "3", ":", "0", "2", ":", "0", "0">>,
      <<"2", "3", ":", "0", "3", ":", "0", "1">>,
      <<"2", "3", ":", "0", "3", ":", "0", "2">> }

\* rows without fault of one day, a date, a time and a value
SequenceRowPool ==
    { << TextCell(<<"0", "9", ".", "0", "1", ".", "2", "0", "2", "6">>),
         TextCell(t), NumCell(<<"1", ".", "5">>) >> : t \in SequenceTimePool }

\* longest sheet of rows without fault
MaxSequenceRows == 4

SequenceSheetTables ==
    UNION { { Table(3, rows) : rows \in [1..r -> SequenceRowPool] } :
                r \in 1..MaxSequenceRows }

ValidateDataSheetSequence == ValidateDataSheetOf(SequenceSheetTables)

\* the same turn on a sheet with faults of every kind
ValidateDataSheetIssues == ValidateDataSheetOf(IssueSheetTables)

\* the same turn on a sheet of dates and times in several formats
ValidateDataSheetDated == ValidateDataSheetOf(DatedSheetTables)

\* the summary after the loop (lines 953-1049)
ValidateDataSummary ==
    /\ vd_pc = "loop" /\ vd_todo = <<>>
    /\ vd_pc' = "done"
    /\ UNCHANGED <<vd_typed, datetime_start_row, numeric_start_row, vd_config,
                   vd_todo, vd_read, validation_results, all_valid, colVars,
                   wbVars, vsVars, rcVars, ccVars, vcVars, mnVars,
                   fmVars, rrVars>>

----------------------------------------------------------------------------
(* find_missing_data: the gaps of column A, from row 7 on, of one sheet.   *)
(* Instants are numbers of seconds counted from midnight of the sheet's    *)
(* first day, and expected_interval, minutes in the code, is held as       *)
(* seconds.                                                                *)

InstantCell(n) == [t |-> "instant", at |-> n]

\* seconds of the Timestamps column A can hold
InstantPool == {0, 5, 6, 12, 30, 60, 63, 120, 240, 420}

\* cells of column A: Timestamps, an empty cell and text that is no date
GapCellPool ==
    { InstantCell(n) : n \in InstantPool } \cup { NullCell, TextCell(<<"x">>) }

\* longest column read
MaxInstants == 4

GapColumns == UNION { [1..n -> GapCellPool] : n \in 0..MaxInstants }

\* ValidInstants with text that is no date taken for midnight instead of
\* being dropped
RECURSIVE ValidInstantsTextKept(_)
ValidInstantsTextKept(column) ==
    IF column = <<>> THEN <<>>
    ELSE IF Head(column).t = "instant"
    THEN <<Head(column).at>> \o ValidInstantsTextKept(Tail(column))
    ELSE IF Head(column).t = "text"
    THEN <<0>> \o ValidInstantsTextKept(Tail(column))
    ELSE ValidInstantsTextKept(Tail(column))

\* pd.to_datetime(datetime_col, errors='coerce').dropna(): the instants of
\* the column, in the order of the column
RECURSIVE ValidInstants(_)
ValidInstants(column) ==
    IF column = <<>> THEN <<>>
    ELSE IF Head(column).t = "instant"
    THEN <<Head(column).at>> \o ValidInstants(Tail(column))
    ELSE ValidInstants(Tail(column))

\* seq with x put before its first element greater than x
RECURSIVE InsertSorted(_, _)
InsertSorted(x, seq) ==
    IF seq = <<>> THEN <<x>>
    ELSE IF x < Head(seq) THEN <<x>> \o seq
    ELSE <<Head(seq)>> \o InsertSorted(x, Tail(seq))

\* datetime_col.sort_values()
RECURSIVE SortValues(_)
SortValues(seq) ==
    IF seq = <<>> THEN <<>>
    ELSE InsertSorted(seq[Len(seq)], SortValues(SubSeq(seq, 1, Len(seq) - 1)))

\* datetime_col.diff().dropna(), in seconds
TimeDiffs(sorted) == [i \in 1..(Len(sorted) - 1) |-> sorted[i + 1] - sorted[i]]

\* the values value_counts() can put first: those that occur most often.
\* Which of several equally frequent values comes first is left open by
\* the sort of value_counts
MostFrequent(diffs) ==
    { diffs[i] : i \in { j \in 1..Len(diffs) :
                           \A k \in 1..Len(diffs) :
                               Count(diffs[k], diffs) <= Count(diffs[j], diffs) } }

\* round(s / 60), halves going to the even minute
RoundMinutes(s) ==
    IF s % 60 < 30 \/ (s % 60 = 30 /\ (s \div 60) % 2 = 0)
    THEN s \div 60 ELSE (s \div 60) + 1

\* the differences of the model, in seconds, that are 0.1 minute from a
\* whole minute and for which abs(s / 60 - round(s / 60)) < 0.1 holds in
\* floating point: 54 / 60 - 1 is -0.09999999999999998
CloseInFloat == {54, 414}

\* lines 1240-1241: the interval is replaced by the whole minute it is
\* close to
RoundIfClose(s) ==
    IF Abs(s - 60 * RoundMinutes(s)) < 6 \/ s \in CloseInFloat
    THEN 60 * RoundMinutes(s) ELSE s

\* the widgets of lines 1254-1272: no custom interval, or a unit and a
\* number of at least 1
NoCustom == [unit |-> "None", value |-> 0]
CustomIntervals ==
    { NoCustom, [unit |-> "Minutes", value |-> 1], [unit |-> "Minutes", value |-> 2],
      [unit |-> "Seconds", value |-> 30], [unit |-> "Hours", value |-> 1] }

\* expected_interval after lines 1257-1272, in seconds
CustomInterval(custom, detected) ==
    CASE custom.unit = "None" -> detected
      [] custom.unit = "Minutes" -> 60 * custom.value
      [] custom.unit = "Seconds" -> custom.value
      [] custom.unit = "Hours" -> 3600 * custom.value

\* a tenth of a minute is not 0.1 in floating point: for these pairs of a
\* difference and an interval of the model, in seconds,
\* diff / expected_interval is just below the whole quotient
\* ((18 / 60) / (6 / 60) is 2.9999999999999996) and int() gives one less
BelowQuotient == { <<18, 6>>, <<114, 6>>, <<228, 6>>, <<228, 12>> }

\* int(diff / expected_interval) - 1 of line 1291
ExpectedRowsBetween(diff, interval) ==
    IF <<diff, interval>> \in BelowQuotient
    THEN (diff \div interval) - 2
    ELSE (diff \div interval) - 1

\* diff > expected_interval * 1.1 of line 1289
IsGap(diff, interval) == 10 * diff > 11 * interval

\* GapOf with one timestamp more, which reaches the end of a gap that is a
\* whole number of intervals long
GapOfThroughEnd(current_dt, next_dt, interval, expected_rows) ==
    [range |-> [gap_start |-> current_dt, gap_end |-> next_dt,
                missing_seconds |-> expected_rows * interval,
                missing_rows |-> expected_rows],
     missing |-> [j \in 1..(expected_rows + 1) |-> current_dt + j * interval]]

\* lines 1294-1309 for one gap: its entry of gap_ranges and its missing
\* timestamps
GapOf(current_dt, next_dt, interval, expected_rows) ==
    [range |-> [gap_start |-> current_dt, gap_end |-> next_dt,
                missing_seconds |-> expected_rows * interval,
                missing_rows |-> expected_rows],
     missing |-> [j \in 1..expected_rows |-> current_dt + j * interval]]

\* the loop of lines 1281-1309 from pair i on: acc is
\* [gap_ranges, missing_timestamps, raised], raised when the division by an
\* interval of 0 raises ZeroDivisionError
RECURSIVE FindGaps(_, _, _, _)
GapFound(acc, sorted, interval, i, gap) ==
    FindGaps([acc EXCEPT !.gap_ranges = Append(@, gap.range),
                         !.missing_timestamps = @ \o gap.missing],
             sorted, interval, i + 1)

FindGaps(acc, sorted, interval, i) ==
    IF i >= Len(sorted) THEN acc
    ELSE IF ~IsGap(sorted[i + 1] - sorted[i], interval)
    THEN FindGaps(acc, sorted, interval, i + 1)
    ELSE IF interval = 0 THEN [acc EXCEPT !.raised = TRUE]
    ELSE GapFound(acc, sorted, interval, i,
                  GapOf(sorted[i], sorted[i + 1], interval,
                        ExpectedRowsBetween(sorted[i + 1] - sorted[i], interval)))

NoInterval == -1

FmIdle ==
    /\ fm_pc = "idle" /\ fm_column = <<>> /\ datetime_col = <<>>
    /\ detected_interval = NoInterval /\ custom_interval = NoCustom
    /\ expected_interval = NoInterval
    /\ gap_ranges = <<>> /\ missing_timestamps = <<>>

FmInit ==
    /\ fm_pc = "start" /\ fm_column \in GapColumns /\ datetime_col = <<>>
    /\ detected_interval = NoInterval /\ custom_interval = NoCustom
    /\ expected_interval = NoInterval
    /\ gap_ranges = <<>> /\ missing_timestamps = <<>>

\* lines 1200-1252: the column is read, converted, sorted, and the interval
\* detected. A sheet of fewer than 7 rows has no cell in fm_column
FindMissingDetect ==
    /\ fm_pc = "start"
    /\ \E sorted \in { SortValues(ValidInstants(fm_column)) } :
        IF fm_column = <<>>
        THEN fm_pc' = "few_rows" /\ UNCHANGED <<datetime_col, detected_interval>>
        ELSE IF sorted = <<>>
        THEN fm_pc' = "no_valid_datetime" /\ UNCHANGED <<datetime_col, detected_interval>>
        ELSE IF Len(sorted) < 2
        THEN /\ fm_pc' = "not_enough_points" /\ datetime_col' = sorted
             /\ UNCHANGED detected_interval
        ELSE /\ fm_pc' = "detected" /\ datetime_col' = sorted
             /\ \E most_common \in MostFrequent(TimeDiffs(sorted)) :
                    detected_interval' = RoundIfClose(most_common)
    /\ UNCHANGED <<fm_column, custom_interval, expected_interval, gap_ranges,
                   missing_timestamps, colVars, wbVars, vsVars, rcVars, ccVars,
                   vcVars, vdVars, mnVars, rrVars>>

\* lines 1254-1275: "Use custom interval instead" and its widgets
FindMissingInterval ==
    /\ fm_pc = "detected"
    /\ \E custom \in CustomIntervals :
        /\ custom_interval' = custom
        /\ expected_interval' = CustomInterval(custom, detected_interval)
    /\ fm_pc' = "interval"
    /\ UNCHANGED <<fm_column, datetime_col, detected_interval, gap_ranges,
                   missing_timestamps, colVars, wbVars, vsVars, rcVars, ccVars,
                   vcVars, vdVars, mnVars, rrVars>>

\* lines 1277-1315: the gaps are looked for and the outcome shown
FindMissingGaps ==
    /\ fm_pc = "interval"
    /\ \E found \in { FindGaps([gap_ranges |-> <<>>, missing_timestamps |-> <<>>,
                               raised |-> FALSE],
                              datetime_col, expected_interval, 1) } :
        IF found.raised
        THEN fm_pc' = "error" /\ UNCHANGED <<gap_ranges, missing_timestamps>>
        ELSE /\ gap_ranges' = found.gap_ranges
             /\ missing_timestamps' = found.missing_timestamps
             /\ fm_pc' = IF found.gap_ranges = <<>> THEN "no_missing_data"
                         ELSE "gaps_found"
    /\ UNCHANGED <<fm_column, datetime_col, detected_interval, custom_interval,
                   expected_interval, colVars, wbVars, vsVars, rcVars, ccVars,
                   vcVars, vdVars, mnVars, rrVars>>

----------------------------------------------------------------------------
(* main: the six stages in one try block.                                  *)

NotLoaded == [sheet_names |-> <<>>, sheet_data |-> <<>>]

\* what a stage of main may do: return, raise an exception, never return
\* validate_columns_and_cells (lines 161-331)
ColumnsAndCellsOutcome(template, data, mode, input) ==
    LET parsed == ParseRowInput(input)
        rows   == IF mode = "Specific Rows" THEN parsed.rows ELSE <<>>
        common == ToSet(template.sheet_names) \cap ToSet(data.sheet_names)
    IN  IF mode = "Specific Rows" /\ parsed.raised THEN "ok"
        ELSE IF \E s \in common :
                    CompareSheet(template.sheet_data[s], data.sheet_data[s],
                                 mode, rows).raised
        THEN "raised"
        ELSE "ok"

\* the loop of validate_data over the sheets names
RECURSIVE ValidateDataLoop(_, _, _, _)
\* r is what the loop's body gave for the first of the sheets names
SheetDone(names, sheet_data, cfg, r) ==
    IF r.outcome # "ok" THEN r.outcome
    ELSE ValidateDataLoop(Tail(names), sheet_data, cfg, r.all_valid)

ValidateDataLoop(names, sheet_data, cfg, valid_so_far) ==
    IF names = <<>> THEN "ok"
    ELSE SheetDone(names, sheet_data, cfg,
                   ValidateSheetData(sheet_data[Head(names)], cfg, valid_so_far))

\* validate_data (lines 496-1049)
ValidateDataOutcome(data, typed, datetime_row, numeric_row) ==
    LET cfg == ColumnConfig(typed, datetime_row, numeric_row)
    IN  IF cfg.raised THEN "ok"
        ELSE ValidateDataLoop(data.sheet_names, data.sheet_data, cfg, TRUE)

\* the tables of the sheets of the two files
MainTables ==
    { EmptyTable,
      Table(3, << << TextCell(<<"0", "9", ".", "0", "1", ".", "2", "0", "2", "6">>),
                     TextCell(<<"2", "3", ":", "0", "0">>),
                     NumCell(<<"1", ".", "5">>) >> >>),
      Table(3, << << TextCell(<<"0", "9", ".", "0", "1", ".", "2", "0", "2", "6">>),
                     TextCell(<<"2", "3", ":", "0", "0">>),
                     NumCell(<<"1", ".", "5">>) >>,
                  << TextCell(<<"1", "0", ".", "0", "1", ".", "2", "0", "2", "6">>),
                     TextCell(<<"2", "3", ":", "0", "1">>),
                     TextCell(<<"a">>) >> >>) }

\* load_excel_file(file) for a file pandas can read
Workbooks(lists) ==
    UNION { { [sheet_names |-> names, sheet_data |-> data] :
                data \in [ToSet(names) -> MainTables] } : names \in lists }

TemplateSheetLists == { << <<"J", "a", "n">> >>, << <<"A", "p", "r">> >> }

\* the values of the widgets of the stages: the validation mode and the rows
\* typed, the column labels and the start rows
MainRowInputs ==
    { <<"5", ",", "6", ",", "7">>, <<"1">>, <<"-", "3">>, <<"x">> }

MnIdle ==
    /\ main_pc = "idle" /\ uploaded = FALSE /\ widgets = <<>>
    /\ template_data = NotLoaded /\ data_to_validate = NotLoaded
    /\ tabs_run = <<>> /\ main_error = FALSE

MnInit ==
    /\ main_pc = "start"
    /\ uploaded \in BOOLEAN
    /\ widgets \in
        [validation_mode : {"Specific Rows", "All Rows"},
         row_input : MainRowInputs,
         labels : TypedLabels,
         start_rows : { <<1, 1>>, <<2, 2>> }]
    /\ template_data = NotLoaded /\ data_to_validate = NotLoaded
    /\ tabs_run = <<>> /\ main_error = FALSE

\* a file is missing: only the invitation to upload is shown (lines 93-94)
MainNoFiles ==
    /\ main_pc = "start" /\ ~uploaded
    /\ main_pc' = "returned"
    /\ UNCHANGED <<uploaded, widgets, template_data, data_to_validate, tabs_run,
                   main_error, colVars, wbVars, vsVars, rcVars, ccVars, vcVars,
                   vdVars,
                   fmVars, rrVars>>

\* both files are loaded (lines 64-65)
MainLoad ==
    /\ main_pc = "start" /\ uploaded
    /\ template_data' \in Workbooks(TemplateSheetLists)
    /\ data_to_validate' \in Workbooks(DataSheetLists)
    /\ main_pc' = "tab1"
    /\ UNCHANGED <<uploaded, widgets, tabs_run, main_error, colVars, wbVars,
                   vsVars, rcVars, ccVars, vcVars, vdVars,
                   fmVars, rrVars>>

\* load_excel_file raises on a file that is no workbook (lines 64-65, 91-92)
MainLoadFails ==
    /\ main_pc = "start" /\ uploaded
    /\ main_error' = TRUE
    /\ main_pc' = "returned"
    /\ UNCHANGED <<uploaded, widgets, template_data, data_to_validate, tabs_run,
                   colVars, wbVars, vsVars, rcVars, ccVars, vcVars, vdVars,
                   fmVars, rrVars>>

\* a stage that returns hands over to the next one; an exception leaves the
\* try block for its except clause, which reports it, and main returns
StageEnds(stage, outcome, next) ==
    /\ tabs_run' = Append(tabs_run, stage)
    /\ main_pc' = IF outcome = "ok" THEN next
                  ELSE IF outcome = "raised" THEN "returned" ELSE "hung"
    /\ main_error' = (main_error \/ outcome = "raised")
    /\ UNCHANGED <<uploaded, widgets, template_data, data_to_validate, colVars,
                   wbVars, vsVars, rcVars, ccVars, vcVars, vdVars,
                   fmVars, rrVars>>

\* tab 1 (lines 68-69): validate_sheets works on the sets of sheet names
MainSheetValidation ==
    /\ main_pc = "tab1"
    /\ StageEnds("validate_sheets", "ok", "tab2")

\* tab 2 (lines 72-73)
MainColumnCellValidation ==
    /\ main_pc = "tab2"
    /\ StageEnds("validate_columns_and_cells",
                 ColumnsAndCellsOutcome(template_data, data_to_validate,
                                        widgets.validation_mode, widgets.row_input),
                 "tab3")

\* tab 3 (lines 76-77): validate_row_counts keeps each sheet's exception
MainRowCountValidation ==
    /\ main_pc = "tab3"
    /\ StageEnds("validate_row_counts", "ok", "tab4")

\* tab 4 (lines 80-81)
MainDataValidation ==
    /\ main_pc = "tab4"
    /\ StageEnds("validate_data",
                 ValidateDataOutcome(data_to_validate, widgets.labels,
                                     widgets.start_rows[1], widgets.start_rows[2]),
                 "tab5")

\* tab 5 (lines 84-85)
MainFindMissingData ==
    /\ main_pc = "tab5"
    /\ StageEnds("find_missing_data", "ok", "tab6")

\* tab 6 (lines 88-89)
MainExport ==
    /\ main_pc = "tab6"
    /\ StageEnds("export_data_to_csv_tab", "ok", "returned")

----------------------------------------------------------------------------
(* The script run twice. Streamlit runs main again on every interaction,   *)
(* in the same process and with the session state the run before has left. *)
(* A run is given the two workbooks, the values of the widgets and, for    *)
(* tab 5, column A of the selected sheet from row 7 on; its report is the  *)
(* list of what its stages show.                                           *)

\* columns of tab 5: instants 1, 2 and 3 minutes apart in any order, and
\* text; with the three instants, two unequal differences tie for most
\* frequent
RerunCellPool ==
    { InstantCell(0), InstantCell(60), InstantCell(180), TextCell(<<"x">>) }
RerunColumns == UNION { [1..n -> RerunCellPool] : n \in {0, 3} }

\* what a run is given
RerunInputs ==
    [template : Workbooks(TemplateSheetLists),
     data : Workbooks(DataSheetLists),
     validation_mode : {"Specific Rows", "All Rows"},
     row_input : { <<"1">> },
     column : RerunColumns,
     custom : {NoCustom, [unit |-> "Minutes", value |-> 1]}]

\* validate_sheets (lines 113-158)
SheetsReport(template, data) ==
    [stage |-> "validate_sheets",
     missing_sheets |-> ToSet(template.sheet_names) \ ToSet(data.sheet_names),
     extra_sheets |-> ToSet(data.sheet_names) \ ToSet(template.sheet_names),
     comparison |-> SheetComparison(ToSet(template.sheet_names),
                                    ToSet(data.sheet_names))]

\* the loop of validate_columns_and_cells over sorted(common_sheets), from
\* the first of sheets on; it ends where a sheet raises
RECURSIVE CellsOfSheets(_, _, _, _, _, _)
CellsOfSheet(sheets, template, data, mode, rows, acc, r) ==
    IF r.raised THEN [outcome |-> "raised", sheets |-> Append(acc, r)]
    ELSE CellsOfSheets(Tail(sheets), template, data, mode, rows, Append(acc, r))

CellsOfSheets(sheets, template, data, mode, rows, acc) ==
    IF sheets = <<>> THEN [outcome |-> "ok", sheets |-> acc]
    ELSE CellsOfSheet(sheets, template, data, mode, rows, acc,
                      CompareSheet(template.sheet_data[Head(sheets)],
                                   data.sheet_data[Head(sheets)], mode, rows))

\* validate_columns_and_cells (lines 161-331)
CellsParsed(template, data, mode, parsed) ==
    IF mode = "Specific Rows" /\ parsed.raised
    THEN [stage |-> "validate_columns_and_cells", outcome |-> "ok",
          sheets |-> <<>>]
    ELSE [stage |-> "validate_columns_and_cells"]
            @@ CellsOfSheets(Sorted(ToSet(template.sheet_names)
                                        \cap ToSet(data.sheet_names)),
                             template, data, mode,
                             IF mode = "Specific Rows" THEN parsed.rows ELSE <<>>,
                             <<>>)

CellsReport(template, data, mode, input) ==
    CellsParsed(template, data, mode, ParseRowInput(input))

\* validate_row_counts (lines 346-493) on tables of fewer than 7 rows
RowsReport(template, data) ==
    LET sheets == Sorted(ToSet(template.sheet_names) \cap ToSet(data.sheet_names))
    IN  [stage |-> "validate_row_counts",
         comparison |->
            [i \in 1..Len(sheets) |->
                RowCountEntry(sheets[i], NumRows(template.sheet_data[sheets[i]]),
                              [rows |-> NumRows(data.sheet_data[sheets[i]]),
                               anchor |-> NullCell])[1]]]

\* the loop of validate_data over the sheets names, with the results of
\* each sheet
RECURSIVE DataOfSheets(_, _, _, _, _)
DataOfSheet(names, sheet_data, cfg, acc, r) ==
    IF r.outcome # "ok"
    THEN [outcome |-> r.outcome, all_valid |-> r.all_valid,
          results |-> Append(acc, r.results)]
    ELSE DataOfSheets(Tail(names), sheet_data, cfg, r.all_valid,
                      Append(acc, r.results))

DataOfSheets(names, sheet_data, cfg, valid_so_far, acc) ==
    IF names = <<>>
    THEN [outcome |-> "ok", all_valid |-> valid_so_far, results |-> acc]
    ELSE DataOfSheet(names, sheet_data, cfg, acc,
                     ValidateSheetData(sheet_data[Head(names)], cfg, valid_so_far))

\* validate_data (lines 496-1049) with the default widgets: columns A, B
\* and C, start rows 1
DataReport(data) ==
    [stage |-> "validate_data"]
        @@ DataOfSheets(data.sheet_names, data.sheet_data,
                        ColumnConfig(<< <<"A">>, <<"B">>, <<"C">> >>, 1, 1),
                        TRUE, <<>>)

\* the positions of the most frequent values of diffs
ModePositions(diffs) ==
    { j \in 1..Len(diffs) : diffs[j] \in MostFrequent(diffs) }

\* value_counts().idxmax() as the build does it: of several values equally
\* frequent, always the one met first, or always the one met last
IdxMaxAfterRun(diffs) ==
    IF first_report = <<>>
    THEN diffs[CHOOSE j \in ModePositions(diffs) :
                    \A k \in ModePositions(diffs) : j <= k]
    ELSE diffs[CHOOSE j \in ModePositions(diffs) :
                    \A k \in ModePositions(diffs) : k <= j]

IdxMax(diffs) ==
    IF idxmax_tie = "first"
    THEN diffs[CHOOSE j \in ModePositions(diffs) :
                    \A k \in ModePositions(diffs) : j <= k]
    ELSE diffs[CHOOSE j \in ModePositions(diffs) :
                    \A k \in ModePositions(diffs) : k <= j]

\* lines 1277-1315 with the interval in use
GapsFound(detected, interval, found) ==
    [stage |-> "find_missing_data",
     outcome |-> IF found.raised THEN "error"
                 ELSE IF found.gap_ranges = <<>> THEN "no_missing_data"
                 ELSE "gaps_found",
     detected_interval |-> detected, expected_interval |-> interval,
     gap_ranges |-> IF found.raised THEN <<>> ELSE found.gap_ranges,
     missing_timestamps |-> IF found.raised THEN <<>>
                            ELSE found.missing_timestamps]

GapsWith(sorted, detected, interval) ==
    GapsFound(detected, interval,
              FindGaps([gap_ranges |-> <<>>, missing_timestamps |-> <<>>,
                        raised |-> FALSE], sorted, interval, 1))

NoGaps(outcome) ==
    [stage |-> "find_missing_data", outcome |-> outcome,
     detected_interval |-> NoInterval, expected_interval |-> NoInterval,
     gap_ranges |-> <<>>, missing_timestamps |-> <<>>]

GapsDetected(sorted, custom, detected) ==
    GapsWith(sorted, detected, CustomInterval(custom, detected))

GapsSorted(column, custom, sorted) ==
    IF column = <<>> THEN NoGaps("few_rows")
    ELSE IF sorted = <<>> THEN NoGaps("no_valid_datetime")
    ELSE IF Len(sorted) < 2 THEN NoGaps("not_enough_points")
    ELSE GapsDetected(sorted, custom, RoundIfClose(IdxMax(TimeDiffs(sorted))))

\* find_missing_data (lines 1164-1437)
GapsReport(column, custom) ==
    GapsSorted(column, custom, SortValues(ValidInstants(column)))

RrIdle ==
    /\ rr_pc = "idle" /\ rr_run = 0 /\ rr_inputs = <<>> /\ idxmax_tie = "first"
    /\ session_state = "empty" /\ rr_report = <<>> /\ first_report = <<>>

RrInit ==
    /\ rr_pc = "load" /\ rr_run = 1 /\ rr_inputs \in RerunInputs
    /\ idxmax_tie \in {"first", "last"}
    /\ session_state = "empty" /\ rr_report = <<>> /\ first_report = <<>>

\* a stage has shown part: the next stage follows, unless it raised, which
\* ends the run in the except clause of main
StageShows(part, next) ==
    /\ rr_report' = Append(rr_report, part)
    /\ rr_pc' = IF part.outcome = "ok" THEN next
                ELSE IF part.outcome = "hung" THEN "hung" ELSE "end"
    /\ UNCHANGED <<rr_run, rr_inputs, idxmax_tie, session_state, first_report,
                   colVars, wbVars, vsVars, rcVars, ccVars, vcVars, vdVars,
                   mnVars, fmVars>>

\* lines 30-65: the files are noted in the session state, if it has none,
\* and loaded
RerunLoad ==
    /\ rr_pc = "load"
    /\ session_state' = IF session_state = "empty" THEN "files" ELSE session_state
    /\ rr_pc' = "tab1"
    /\ UNCHANGED <<rr_run, rr_inputs, idxmax_tie, rr_report, first_report,
                   colVars, wbVars, vsVars, rcVars, ccVars, vcVars, vdVars,
                   mnVars, fmVars>>

\* tab 1
RerunSheetValidation ==
    /\ rr_pc = "tab1"
    /\ StageShows([outcome |-> "ok"]
                    @@ SheetsReport(rr_inputs.template, rr_inputs.data), "tab2")

\* tab 2
RerunColumnCellValidation ==
    /\ rr_pc = "tab2"
    /\ StageShows(CellsReport(rr_inputs.template, rr_inputs.data,
                              rr_inputs.validation_mode, rr_inputs.row_input),
                  "tab3")

\* tab 3
RerunRowCountValidation ==
    /\ rr_pc = "tab3"
    /\ StageShows([outcome |-> "ok"]
                    @@ RowsReport(rr_inputs.template, rr_inputs.data), "tab4")

\* tab 4
RerunDataValidation ==
    /\ rr_pc = "tab4"
    /\ StageShows(DataReport(rr_inputs.data), "tab5")

\* tab 5: find_missing_data catches what its analysis raises
RerunFindMissingData ==
    /\ rr_pc = "tab5"
    /\ \E part \in { GapsReport(rr_inputs.column, rr_inputs.custom) } :
        /\ rr_report' = Append(rr_report, part)
        /\ rr_pc' = "end"
    /\ UNCHANGED <<rr_run, rr_inputs, idxmax_tie, session_state, first_report,
                   colVars, wbVars, vsVars, rcVars, ccVars, vcVars, vdVars,
                   mnVars, fmVars>>

\* the script is run again on the same files and widgets
RerunAgain ==
    /\ rr_pc = "end" /\ rr_run = 1
    /\ rr_run' = 2 /\ first_report' = rr_report /\ rr_report' = <<>>
    /\ rr_pc' = "load"
    /\ UNCHANGED <<rr_inputs, idxmax_tie, session_state, colVars, wbVars,
                   vsVars, rcVars, ccVars, vcVars, vdVars, mnVars, fmVars>>

----------------------------------------------------------------------------
(* Specifications: one per component, the other components idle.           *)

\* column addressing alone
InitCol == ColInit /\ WbIdle /\ VsIdle /\ RcIdle /\ CcIdle /\ VcIdle
    /\ VdIdle /\ MnIdle /\ FmIdle /\ RrIdle
SpecCol == InitCol /\ [][ColNext]_vars

\* validate_sheets on a pair of workbooks
InitSheets == WbInit /\ VsInit /\ ColIdle /\ RcIdle /\ CcIdle /\ VcIdle
    /\ VdIdle /\ MnIdle /\ FmIdle /\ RrIdle
NextSheets == ValidateSheets
SpecSheets == InitSheets /\ [][NextSheets]_vars

\* validate_row_counts on a pair of workbooks
InitRows == WbSetInit /\ RcInit /\ ColIdle /\ VsIdle /\ CcIdle /\ VcIdle
    /\ VdIdle /\ MnIdle /\ FmIdle /\ RrIdle
NextRows == RowCountStart \/ RowCountSheet \/ RowCountSummary
SpecRows == InitRows /\ [][NextRows]_vars

\* validate_row_counts on one common sheet with a date in its cell A7
InitAnchor ==
    /\ data_sheet_names = <<SheetNamePool[1]>>
    /\ template_sheet_names \in {<<>>, <<SheetNamePool[1]>>}
    /\ RcInit /\ ColIdle /\ VsIdle /\ CcIdle /\ VcIdle /\ VdIdle /\ MnIdle /\ FmIdle /\ RrIdle
NextAnchor == RowCountStart \/ RowCountSheetDated \/ RowCountSummary
SpecAnchor == InitAnchor /\ [][NextAnchor]_vars

\* the classification of one cell of the numeric region
InitClassify == CcInit /\ WbIdle /\ ColIdle /\ VsIdle /\ RcIdle /\ VcIdle
    /\ VdIdle /\ MnIdle /\ FmIdle /\ RrIdle
NextClassify == ClassifyCell
SpecClassify == InitClassify /\ [][NextClassify]_vars

\* validate_columns_and_cells on the two tables of one common sheet
InitCompare == VcInit /\ WbIdle /\ ColIdle /\ VsIdle /\ RcIdle /\ CcIdle
    /\ VdIdle /\ MnIdle /\ FmIdle /\ RrIdle
NextCompare == ParseRows \/ CompareSheetTables
SpecCompare == InitCompare /\ [][NextCompare]_vars

\* validate_data
InitData ==
    /\ VdInit /\ data_sheet_names \in DataSheetLists
    /\ template_sheet_names = data_sheet_names
    /\ ColIdle /\ VsIdle /\ RcIdle /\ CcIdle /\ VcIdle /\ MnIdle /\ FmIdle /\ RrIdle
NextData == ValidateDataConfig \/ ValidateDataSheet \/ ValidateDataSummary
SpecData == InitData /\ [][NextData]_vars

\* validate_data on one sheet of dates and times, columns A, B and C
InitFormats ==
    /\ vd_pc = "start"
    /\ vd_typed = << <<"A">>, <<"B">>, <<"C">> >>
    /\ \E p \in StartRows : datetime_start_row = p[1] /\ numeric_start_row = p[2]
    /\ vd_config = NoConfig /\ vd_todo = <<>> /\ vd_read = <<>>
    /\ validation_results = <<>> /\ all_valid = TRUE
    /\ data_sheet_names = << <<"J", "a", "n">> >>
    /\ template_sheet_names = data_sheet_names
    /\ ColIdle /\ VsIdle /\ RcIdle /\ CcIdle /\ VcIdle /\ MnIdle /\ FmIdle /\ RrIdle
NextFormats ==
    ValidateDataConfig \/ ValidateDataSheetDated \/ ValidateDataSummary
SpecFormats == InitFormats /\ [][NextFormats]_vars

\* validate_data on one sheet of rows without fault in any order, columns A,
\* B and C
InitSequence ==
    /\ vd_pc = "start"
    /\ vd_typed = << <<"A">>, <<"B">>, <<"C">> >>
    /\ \E p \in StartRows : datetime_start_row = p[1] /\ numeric_start_row = p[2]
    /\ vd_config = NoConfig /\ vd_todo = <<>> /\ vd_read = <<>>
    /\ validation_results = <<>> /\ all_valid = TRUE
    /\ data_sheet_names = << <<"J", "a", "n">> >>
    /\ template_sheet_names = data_sheet_names
    /\ ColIdle /\ VsIdle /\ RcIdle /\ CcIdle /\ VcIdle /\ MnIdle /\ FmIdle /\ RrIdle
NextSequence ==
    ValidateDataConfig \/ ValidateDataSheetSequence \/ ValidateDataSummary
SpecSequence == InitSequence /\ [][NextSequence]_vars

\* validate_data on one or two sheets with faults of every kind, columns A,
\* B and C
InitIssues ==
    /\ vd_pc = "start"
    /\ vd_typed = << <<"A">>, <<"B">>, <<"C">> >>
    /\ \E p \in StartRows : datetime_start_row = p[1] /\ numeric_start_row = p[2]
    /\ vd_config = NoConfig /\ vd_todo = <<>> /\ vd_read = <<>>
    /\ validation_results = <<>> /\ all_valid = TRUE
    /\ data_sheet_names \in DataSheetLists
    /\ template_sheet_names = data_sheet_names
    /\ ColIdle /\ VsIdle /\ RcIdle /\ CcIdle /\ VcIdle /\ MnIdle /\ FmIdle /\ RrIdle
NextIssues ==
    ValidateDataConfig \/ ValidateDataSheetIssues \/ ValidateDataSummary
SpecIssues == InitIssues /\ [][NextIssues]_vars

\* find_missing_data on column A of one sheet
InitGaps ==
    FmInit /\ WbIdle /\ ColIdle /\ VsIdle /\ RcIdle /\ CcIdle /\ VcIdle
    /\ VdIdle /\ MnIdle /\ RrIdle
NextGaps == FindMissingDetect \/ FindMissingInterval \/ FindMissingGaps
SpecGaps == InitGaps /\ [][NextGaps]_vars

\* main
InitMain ==
    MnInit /\ WbIdle /\ ColIdle /\ VsIdle /\ RcIdle /\ CcIdle /\ VcIdle /\ VdIdle
    /\ FmIdle /\ RrIdle
NextMain ==
    \/ MainNoFiles \/ MainLoad \/ MainLoadFails
    \/ MainSheetValidation \/ MainColumnCellValidation
    \/ MainRowCountValidation \/ MainDataValidation
    \/ MainFindMissingData \/ MainExport
SpecMain == InitMain /\ [][NextMain]_vars

\* main run twice on the same files and widgets
InitRerun ==
    RrInit /\ WbIdle /\ ColIdle /\ VsIdle /\ RcIdle /\ CcIdle /\ VcIdle /\ VdIdle
    /\ MnIdle /\ FmIdle
NextRerun ==
    \/ RerunLoad \/ RerunSheetValidation \/ RerunColumnCellValidation
    \/ RerunRowCountValidation \/ RerunDataValidation
    \/ RerunFindMissingData \/ RerunAgain
SpecRerun == InitRerun /\ [][NextRerun]_vars

----------------------------------------------------------------------------
(* C1: for every column index i >= 0, converting i to its label and the    *)
(* label back to an index gives i again, with 0 -> "A", 25 -> "Z" and      *)
(* 26 -> "AA".                                                             *)
C1_RoundTrip ==
    /\ (col_mode = "index" /\ col_pc = "indexed") =>
            /\ ~col_result.raised
            /\ col_result.value = col_idx
    /\ (col_mode = "index" /\ col_pc # "start") =>
            /\ (col_idx = 0  => col_letter = <<"A">>)
            /\ (col_idx = 25 => col_letter = <<"Z">>)
            /\ (col_idx = 26 => col_letter = <<"A", "A">>)

\* the three-letter label AAA has been produced from 702 and parsed back
C1_Witness ==
    /\ col_mode = "index" /\ col_pc = "indexed"
    /\ col_idx = 702 /\ col_letter = <<"A", "A", "A">>
    /\ col_result.value = 702

HasNonLetter(s) == \E i \in 1..Len(s) : ~IsAlpha(s[i])

(* C2: column_letter_to_index fails with InvalidLabel whenever its input   *)
(* contains a non-letter character, and never returns an index for it.     *)
C2_NonLetterRaises ==
    (col_mode = "label" /\ col_pc = "indexed" /\ HasNonLetter(col_letter))
        => col_result.raised

TemplateSheets == ToSet(template_sheet_names)
DataSheets == ToSet(data_sheet_names)

(* C10: validate_sheets computes missing = template sheets minus data      *)
(* sheets and extra = data sheets minus template sheets, two disjoint      *)
(* sets; the comparison table has exactly one entry per sheet of the union,*)
(* in sorted order, whose status is "Match" iff the sheet is in both.      *)
C10_SheetComparison ==
    vs_pc = "done" =>
        /\ missing_sheets = { n \in TemplateSheets : n \notin DataSheets }
        /\ extra_sheets = { n \in DataSheets : n \notin TemplateSheets }
        /\ missing_sheets \cap extra_sheets = {}
        /\ Len(sheet_comparison) = Cardinality(TemplateSheets \cup DataSheets)
        /\ \A n \in TemplateSheets \cup DataSheets :
                \E i \in 1..Len(sheet_comparison) : sheet_comparison[i].sheet = n
        /\ \A i \in 1..Len(sheet_comparison) - 1 :
                StrLess(sheet_comparison[i].sheet, sheet_comparison[i + 1].sheet)
        /\ \A i \in 1..Len(sheet_comparison) :
                LET e == sheet_comparison[i]
                IN  /\ e.status = "Match" <=>
                            (e.sheet \in TemplateSheets /\ e.sheet \in DataSheets)
                    /\ e.in_template = "Y" <=> e.sheet \in TemplateSheets
                    /\ e.in_data = "Y" <=> e.sheet \in DataSheets

\* a comparison with a matching sheet, a missing sheet and an extra sheet,
\* the workbook order of the template differing from the sorted order
C10_Witness ==
    /\ vs_pc = "done"
    /\ template_sheet_names = << <<"J", "a", "n">>, <<"F", "e", "b">> >>
    /\ data_sheet_names = << <<"j", "a", "n">>, <<"J", "a", "n">> >>
    /\ missing_sheets = { <<"F", "e", "b">> }
    /\ extra_sheets = { <<"j", "a", "n">> }
    /\ Len(sheet_comparison) = 3
    /\ sheet_comparison[2].status = "Match"

\* reading the sheet makes the try block of validate_row_counts raise
RowCountRaises(data) == data.rows >= 7 /\ data.anchor.t = "bool"

(* C5: in validate_row_counts an exception while one common sheet is       *)
(* processed gives status Error for that sheet only and the loop goes on:  *)
(* after the loop the comparison table has exactly one entry for every     *)
(* sheet common to template and data, whatever sheets raised.              *)
C5_ErrorPerSheet ==
    rc_pc \in {"summary", "done"} =>
        /\ Len(row_comparison) = Cardinality(CommonSheets)
        /\ \A n \in CommonSheets :
                Cardinality({ i \in 1..Len(row_comparison) :
                                row_comparison[i].sheet = n }) = 1
        /\ \A i \in 1..Len(row_comparison) :
                /\ rc_read[i].sheet = row_comparison[i].sheet
                /\ row_comparison[i].status = "Error"
                        <=> RowCountRaises(rc_read[i].data)

\* two common sheets, the first raised, the second was still processed
C5_Witness ==
    /\ rc_pc = "done"
    /\ Len(row_comparison) = 2
    /\ RowCountRaises(rc_read[1].data)
    /\ row_comparison[1].status = "Error"
    /\ row_comparison[2].status = "Correct"

\* the trimmed text of the classified cell
CcText == Strip(StrOf(cc_value))
CcHasAlpha == \E i \in 1..Len(CcText) : IsAlpha(CcText[i])
CcHasSpecial == \E i \in 1..Len(CcText) : CcText[i] \notin AllowedChars
CcIsText(s) == cc_value = TextCell(s)

(* C6: the classification of a cell of the numeric region is a             *)
(* first-match-wins cascade: null -> Null; empty trimmed text ->           *)
(* EmptyString; numeric type -> Numeric; text that parses as a float ->    *)
(* Numeric; any alphabetic character -> Alphabetic; a character outside    *)
(* 0-9 . - -> SpecialChar; otherwise NonNumericOther. "12.5" is Numeric,   *)
(* "" EmptyString, "abc" Alphabetic, "12#5" SpecialChar, "1.2.3"           *)
(* NonNumericOther; a letter together with a special character is          *)
(* Alphabetic only.                                                        *)
C6_Cascade ==
    cc_pc = "done" =>
        /\ cc_class = "Null" <=> IsNa(cc_value)
        /\ ~IsNa(cc_value) =>
            /\ cc_class = "EmptyString" <=> CcText = <<>>
            /\ CcText # <<>> =>
                /\ cc_class = "Numeric" <=>
                        (IsNumericType(cc_value) \/ FloatParses(CcText))
                /\ ~(IsNumericType(cc_value) \/ FloatParses(CcText)) =>
                    /\ cc_class = "Alphabetic" <=> CcHasAlpha
                    /\ cc_class = "SpecialChar" <=> (~CcHasAlpha /\ CcHasSpecial)
                    /\ cc_class = "NonNumericOther" <=>
                            (~CcHasAlpha /\ ~CcHasSpecial)
        /\ CcIsText(<<"1", "2", ".", "5">>) => cc_class = "Numeric"
        /\ CcIsText(<<>>) => cc_class = "EmptyString"
        /\ CcIsText(<<"a", "b", "c">>) => cc_class = "Alphabetic"
        /\ CcIsText(<<"1", "2", "#", "5">>) => cc_class = "SpecialChar"
        /\ CcIsText(<<"1", ".", "2", ".", "3">>) => cc_class = "NonNumericOther"
        /\ CcIsText(<<"-", "-", "5">>) => cc_class = "NonNumericOther"
        /\ CcIsText(<<"1", "a", "#">>) => cc_class = "Alphabetic"

\* a text with a letter and a special character, no float, was classified
C6_Witness ==
    /\ cc_pc = "done"
    /\ CcIsText(<<"a", "#">>)
    /\ CcHasAlpha /\ CcHasSpecial /\ ~FloatParses(CcText)
    /\ cc_class = "Alphabetic"

\* the 0-based row indexes the user asked for
RowsToCheck ==
    IF validation_mode = "All Rows" THEN 0..(NumRows(template_df) - 1)
    ELSE ToSet(rows_to_validate)

\* the typed rows are a set: no row is named twice
NoRowTwice ==
    \A i, j \in 1..Len(rows_to_validate) :
        rows_to_validate[i] = rows_to_validate[j] => i = j

\* the cells, as <<rowIndex, colIndex>> from 0, present in both tables and
\* holding different texts once trimmed
DifferingCells ==
    { p \in (0..(NumRows(template_df) - 1)) \X (0..(template_df.cols - 1)) :
        /\ p[1] < NumRows(data_df) /\ p[2] < data_df.cols
        /\ CellStr(ILoc(template_df, p[1], p[2]))
                # CellStr(ILoc(data_df, p[1], p[2])) }

SameShape ==
    NumRows(template_df) = NumRows(data_df) /\ template_df.cols = data_df.cols

\* the watermark of a row of the template: its last non-empty column
Watermark(r) == LastColWithData(template_df, r)

(* C7: comparing a template table with an identical data table yields zero *)
(* mismatches for any set of rows to check; if the two tables differ in    *)
(* exactly one cell, at the watermark column of a checked row, exactly one *)
(* mismatch is produced and its address is that cell.                      *)
C7_OneMismatch ==
    (vc_pc = "done" /\ NoRowTwice) =>
        /\ template_df = data_df => text_cell_mismatches = <<>>
        /\ \A p \in DifferingCells :
                ( /\ SameShape /\ DifferingCells = {p}
                  /\ p[1] \in RowsToCheck /\ p[2] = Watermark(p[1]) )
                => /\ Len(text_cell_mismatches) = 1
                   /\ text_cell_mismatches[1].row = p[1] + 1
                   /\ text_cell_mismatches[1].column = p[2]
                   /\ text_cell_mismatches[1].cell =
                          get_excel_column_name(p[2]) \o IntToStr(p[1] + 1)

C9_ValidCellIndex ==
    vc_pc = "done" =>
        \A i \in 1..Len(text_cell_mismatches) :
            LET rowIndex == text_cell_mismatches[i].row - 1
                colIndex == text_cell_mismatches[i].column
            IN  /\ 0 <= rowIndex
                /\ rowIndex < NumRows(template_df) /\ rowIndex < NumRows(data_df)
                /\ 0 <= colIndex
                /\ colIndex < template_df.cols /\ colIndex < data_df.cols

\* a text that is no column label: empty, or with a character that is no
\* letter
UnparseableLabel(label) == label = <<>> \/ HasNonLetter(label)

\* one of the three labels read from the widgets is no column label
InvalidColumnConfig ==
    \E i \in 1..3 : UnparseableLabel(Strip(Upper(vd_typed[i])))

(* C3: invalid configuration (an unparseable date, time or numeric-start   *)
(* column label in validate_data, or a non-integer row list in             *)
(* validate_columns_and_cells) is rejected with a validation error and the *)
(* function returns before any sheet is processed: no sheet result is      *)
(* produced under an invalid configuration. Here for the labels of         *)
(* validate_data: once they are read, the function has rejected them and   *)
(* validation_results has no entry.                                        *)
C3_InvalidLabelRejected ==
    (vd_pc # "start" /\ InvalidColumnConfig)
        => (vd_pc = "rejected" /\ validation_results = <<>>)

\* the six stages of main, in the order of the calls
AllStages ==
    << "validate_sheets", "validate_columns_and_cells", "validate_row_counts",
       "validate_data", "find_missing_data", "export_data_to_csv_tab" >>

(* C4: no error aborts the overall run: whatever happens while one stage   *)
(* or one sheet is processed, an exception raised inside                   *)
(* validate_columns_and_cells or validate_data included, every later stage *)
(* called by main (row-count validation, data validation, gap analysis,    *)
(* export) is still executed: once the first stage was called, main ends   *)
(* with all six stages called.                                             *)
C4_EveryStageRuns ==
    (main_pc \in {"returned", "hung"} /\ tabs_run # <<>>) => tabs_run = AllStages


\* the month and the year of the date in an A7 cell of MonthAnchors
AnchorMonth(anchor) ==
    IF anchor.t = "datetime" THEN anchor.month
    ELSE DigitsValue(SubSeq(anchor.s, 6, 7))
AnchorYear(anchor) ==
    IF anchor.t = "datetime" THEN anchor.year
    ELSE DigitsValue(SubSeq(anchor.s, 1, 4))

\* the days of month m of year y
DaysInMonth(m, y) ==
    IF m \in {4, 6, 9, 11} THEN 30
    ELSE IF m = 2
         THEN (IF (y % 4 = 0 /\ y % 100 # 0) \/ y % 400 = 0 THEN 29 ELSE 28)
         ELSE 31

ExpectedKnown(data) ==
    ~ExpectedRows(data).raised /\ ExpectedRows(data).expected_rows # 0

(* C12: every entry of validate_row_counts whose expected row count is     *)
(* known has status Correct if and only if the data sheet's row count      *)
(* equals the expected row count, and Incorrect otherwise; the template's  *)
(* row count has no influence on the status.                               *)
C12_StatusFromDataRows ==
    \A i \in 1..Len(row_comparison) :
        ExpectedKnown(rc_read[i].data) =>
            /\ row_comparison[i].status \in {"Correct", "Incorrect"}
            /\ row_comparison[i].status = "Correct"
                    <=> rc_read[i].data.rows = row_comparison[i].expected_rows
            /\ row_comparison[i].data_rows = rc_read[i].data.rows
            /\ \A j \in 1..Len(row_comparison) :
                    rc_read[j].data = rc_read[i].data
                        => row_comparison[j].status = row_comparison[i].status

\* two sheets with the same data sheet and templates of 7 and 44647 rows are
\* both Incorrect, the second although its template has the expected rows
C12_Witness ==
    /\ rc_pc = "done"
    /\ Len(row_comparison) = 2
    /\ rc_read[1].data = rc_read[2].data
    /\ rc_read[1].data.rows = 80647
    /\ rc_read[1].template_rows = 7
    /\ rc_read[2].template_rows = 44647
    /\ row_comparison[2].status = "Incorrect"
    /\ row_comparison[2].expected_rows = 44647

\* the text of a cell is a date of the calendar, written YYYY-MM-DD
IsDateText(s) ==
    /\ Len(s) = 10 /\ s[5] = "-" /\ s[8] = "-"
    /\ \A k \in {1, 2, 3, 4, 6, 7, 9, 10} : IsDigit(s[k])
    /\ DigitsValue(SubSeq(s, 1, 4)) >= 1
    /\ DigitsValue(SubSeq(s, 6, 7)) \in 1..12
    /\ DigitsValue(SubSeq(s, 9, 10)) \in
            1..DaysInMonth(DigitsValue(SubSeq(s, 6, 7)),
                           DigitsValue(SubSeq(s, 1, 4)))

\* the data sheet gives no anchor date: fewer than 7 rows, an empty A7 cell,
\* or text in A7 that is no date
NoAnchorDate(data) ==
    \/ data.rows < 7
    \/ IsNa(data.anchor)
    \/ data.anchor.t = "text" /\ ~IsDateText(data.anchor.s)

(* C13: the expected row count of a sheet is Unknown, and so is its        *)
(* status (not Error, Correct or Incorrect), whenever the data sheet has   *)
(* fewer than 7 rows, or its anchor cell A7 is empty, or that cell is text *)
(* that cannot be parsed as a date.                                        *)
C13_UnknownWithoutAnchorDate ==
    \A i \in 1..Len(row_comparison) :
        NoAnchorDate(rc_read[i].data) =>
            /\ row_comparison[i].status = "Unknown"
            /\ row_comparison[i].expected_rows = "Unknown"

\* the patterns in their declared order: D.M.Y, D/M/Y, D-M-Y, Y.M.D, Y/M/D,
\* Y-M-D, M.D.Y, M/D/Y, M-D-Y, and H:M:S, H:M, h:M:S AM/PM, h:M AM/PM
DateOrder ==
    << "%d.%m.%Y", "%d/%m/%Y", "%d-%m-%Y", "%Y.%m.%d", "%Y/%m/%d", "%Y-%m-%d",
       "%m.%d.%Y", "%m/%d/%Y", "%m-%d-%Y" >>
TimeOrder == << "%H:%M:%S", "%H:%M", "%I:%M:%S %p", "%I:%M %p" >>

\* the text s parses under the pattern called name
ParsesAs(s, name, formats) ==
    \E k \in 1..Len(formats) : formats[k].name = name /\ Strptime(s, formats[k]).ok

\* the first pattern of order that parses s, "None" if none does
FirstPattern(s, order, formats) ==
    IF \E k \in 1..Len(order) : ParsesAs(s, order[k], formats)
    THEN order[CHOOSE k \in 1..Len(order) :
                    /\ ParsesAs(s, order[k], formats)
                    /\ \A j \in 1..(k - 1) : ~ParsesAs(s, order[j], formats)]
    ELSE "None"

\* the text of a cell as the detection reads it
CellText(value) == Strip(StrOf(value))

\* the cell is a structured date-time or parses under some pattern
Recognised(value, order, formats) ==
    /\ ~IsNa(value)
    /\ IsDatetime(value) \/ FirstPattern(CellText(value), order, formats) # "None"

\* the position of the first recognised cell of a column, 0 if there is none
FirstRecognised(column, order, formats) ==
    IF \E j \in 1..Len(column) : Recognised(column[j], order, formats)
    THEN CHOOSE j \in 1..Len(column) :
            /\ Recognised(column[j], order, formats)
            /\ \A h \in 1..(j - 1) : ~Recognised(column[h], order, formats)
    ELSE 0

\* the date and the time column of the i-th sheet read, from the start row
\* on; empty when the sheet has no row there
DateColumnOf(i) ==
    IF DateTimeGuard(vd_read[i].df, vd_config)
    THEN ColumnFrom(vd_read[i].df, vd_config.datetime_start_row - 1,
                    vd_config.date_col_idx)
    ELSE <<>>
TimeColumnOf(i) ==
    IF DateTimeGuard(vd_read[i].df, vd_config)
    THEN ColumnFrom(vd_read[i].df, vd_config.datetime_start_row - 1,
                    vd_config.time_col_idx)
    ELSE <<>>

\* a detected pattern is the first pattern of the declared order that parses
\* the first recognised cell of the column
FirstInOrder(detected, column, order, formats) ==
    LET j == FirstRecognised(column, order, formats)
    IN  (j > 0 /\ ~IsDatetime(column[j]))
            => detected = FirstPattern(CellText(column[j]), order, formats)

AmbiguousDate == TextCell(<<"0", "1", "/", "0", "2", "/", "2", "0", "2", "4">>)

(* C14: format detection tries the known patterns in the declared order    *)
(* (dates D.M.Y, D/M/Y, D-M-Y, Y.M.D, Y/M/D, Y-M-D, M.D.Y, M/D/Y, M-D-Y;   *)
(* times H:M:S, H:M, h:M:S AM/PM, h:M AM/PM) and returns the first pattern *)
(* that parses the cell; a text that parses under D/M/Y and under M/D/Y,   *)
(* such as "01/02/2024", is always detected as D/M/Y.                      *)
C14_FirstPatternInOrder ==
    \A i \in 1..Len(validation_results) :
        /\ FirstInOrder(validation_results[i].results.detected_date_format,
                        DateColumnOf(i), DateOrder, date_formats_to_try)
        /\ FirstInOrder(validation_results[i].results.detected_time_format,
                        TimeColumnOf(i), TimeOrder, time_formats_to_try)
        /\ (DateColumnOf(i) # <<>> /\ DateColumnOf(i)[1] = AmbiguousDate)
                => /\ ParsesAs(CellText(AmbiguousDate), "%m/%d/%Y",
                                date_formats_to_try)
                   /\ validation_results[i].results.detected_date_format
                            = "%d/%m/%Y"

\* a sheet whose date column begins with "01/02/2024" was validated and its
\* date format detected as D/M/Y, its time format as H:M
C14_Witness ==
    /\ vd_pc = "done"
    /\ Len(validation_results) = 1
    /\ DateColumnOf(1) # <<>>
    /\ DateColumnOf(1)[1] = AmbiguousDate
    /\ validation_results[1].results.detected_date_format = "%d/%m/%Y"
    /\ validation_results[1].results.detected_time_format = "%H:%M"

\* what the cells of a column up to its first recognised cell determine:
\* native date-time, the first pattern that parses that cell, or None
DeterminedByFirst(column, order, formats) ==
    LET j == FirstRecognised(column, order, formats)
    IN  IF j = 0 THEN "None"
        ELSE IF IsDatetime(column[j]) THEN "datetime_object"
        ELSE FirstPattern(CellText(column[j]), order, formats)

(* C15: the detected format of a column is determined solely by the first  *)
(* cell, scanning from the start row down, that is a structured date-time  *)
(* (giving native-datetime) or parses under some known pattern; the cells  *)
(* after it never change it, and it is None if and only if no cell of the  *)
(* column is a structured date-time or parses under any pattern:           *)
(* ["09.01.2026", "10.01.2026"] gives D.M.Y, ["not-a-date"] gives None.    *)
C15_FirstCellDecides ==
    \A i \in 1..Len(validation_results) :
        LET res == validation_results[i].results
            dates == DateColumnOf(i)
            times == TimeColumnOf(i)
        IN  /\ res.detected_date_format
                    = DeterminedByFirst(dates, DateOrder, date_formats_to_try)
            /\ res.detected_time_format
                    = DeterminedByFirst(times, TimeOrder, time_formats_to_try)
            /\ res.detected_date_format = "None"
                    <=> \A j \in 1..Len(dates) :
                            ~Recognised(dates[j], DateOrder, date_formats_to_try)
            /\ dates = << TextCell(<<"0", "9", ".", "0", "1", ".", "2", "0", "2", "6">>),
                          TextCell(<<"1", "0", ".", "0", "1", ".", "2", "0", "2", "6">>) >>
                    => res.detected_date_format = "%d.%m.%Y"
            /\ dates = << TextCell(<<"n", "o", "t", "-", "a", "-", "d", "a", "t", "e">>) >>
                    => res.detected_date_format = "None"

\* the date column is a text that is no date, then a D.M.Y date, then a
\* Y-M-D date: the format is that of the second cell and the third did not
\* change it
C15_Witness ==
    /\ vd_pc = "done"
    /\ Len(validation_results) = 1
    /\ Len(DateColumnOf(1)) = 3
    /\ DateColumnOf(1)[1] = TextCell(<<"n", "o", "t", "-", "a", "-", "d", "a", "t", "e">>)
    /\ DateColumnOf(1)[2] = TextCell(<<"0", "9", ".", "0", "1", ".", "2", "0", "2", "6">>)
    /\ DateColumnOf(1)[3] = TextCell(<<"2", "0", "2", "6", "-", "0", "1", "-", "0", "9">>)
    /\ validation_results[1].results.detected_date_format = "%d.%m.%Y"

\* the sheet-row number of cell k of the date and time columns
RowNumber(k) == (vd_config.datetime_start_row - 1) + k

\* a datetime_format issue was recorded for the row in the column
HasFormatIssue(i, row, column) ==
    \E n \in 1..Len(validation_results[i].results.datetime_format_issues) :
        /\ validation_results[i].results.datetime_format_issues[n].row = row
        /\ validation_results[i].results.datetime_format_issues[n].column = column

\* the entries of the combined sequence for the row
CombinedOf(i, row) ==
    { n \in 1..Len(vd_read[i].combined_datetimes) :
        vd_read[i].combined_datetimes[n].row = row }

\* the cell, no structured date-time itself, parses under the detected
\* format: under the pattern, and never under native date-time
ParsesUnderLocked(value, detected, formats) ==
    /\ detected # "datetime_object"
    /\ ParsesAs(CellText(value), detected, formats)

\* what the cell is read as under the detected format
ReadUnderLocked(value, detected, formats) ==
    IF IsDatetime(value) THEN DatetimeOf(value)
    ELSE Strptime(CellText(value),
                  formats[CHOOSE k \in 1..Len(formats) :
                            formats[k].name = detected]).datetime

\* the cell is a structured date-time or parses under the detected format
Conforms(value, detected, formats) ==
    IsDatetime(value) \/ ParsesUnderLocked(value, detected, formats)

\* C16 for row k of sheet i, whose date and time are d and t, the detected
\* formats of the two columns being any format of the set locks
LockedRow(i, k, d, t, date_format, time_format, locks) ==
    (~IsNa(d) /\ ~IsNa(t)) =>
        /\ (/\ date_format \in locks /\ ~IsDatetime(d)
            /\ ~ParsesUnderLocked(d, date_format, date_formats_to_try))
                => /\ HasFormatIssue(i, RowNumber(k), vd_config.date_col)
                   /\ CombinedOf(i, RowNumber(k)) = {}
        /\ (/\ date_format \in locks /\ time_format \in locks
            /\ Conforms(d, date_format, date_formats_to_try)
            /\ ~IsDatetime(t)
            /\ ~ParsesUnderLocked(t, time_format, time_formats_to_try))
                => /\ HasFormatIssue(i, RowNumber(k), vd_config.time_col)
                   /\ CombinedOf(i, RowNumber(k)) = {}
        /\ (/\ date_format \in locks /\ time_format \in locks
            /\ Conforms(d, date_format, date_formats_to_try)
            /\ Conforms(t, time_format, time_formats_to_try))
                => \E n \in CombinedOf(i, RowNumber(k)) :
                        vd_read[i].combined_datetimes[n].datetime
                            = Combine(ReadUnderLocked(d, date_format,
                                                      date_formats_to_try),
                                      ReadUnderLocked(t, time_format,
                                                      time_formats_to_try))

LockedRows(locks) ==
    \A i \in 1..Len(validation_results) :
        \A k \in 1..Len(DateColumnOf(i)) :
            LockedRow(i, k, DateColumnOf(i)[k], TimeColumnOf(i)[k],
                      validation_results[i].results.detected_date_format,
                      validation_results[i].results.detected_time_format, locks)

\* the names of the known patterns
PatternNames ==
    { DateOrder[k] : k \in 1..Len(DateOrder) }
        \cup { TimeOrder[k] : k \in 1..Len(TimeOrder) }

(* C16: once the format of a column has been detected it stays fixed for   *)
(* the whole validation pass and every later cell of the column is         *)
(* validated against it without re-inference: a text cell that does not    *)
(* parse under the locked format, even if another known pattern parses it, *)
(* yields a datetime_format issue and is not added to the combined         *)
(* sequence (and a cell that parses under it is read under it).            *)
C16_LockedFormat == LockedRows(PatternNames \cup {"datetime_object"})

\* at least one of the eight issue lists of a sheet's results is not empty
SomeIssue(results) ==
    \/ results.datetime_issues # <<>>
    \/ results.datetime_format_issues # <<>>
    \/ results.datetime_sequence_issues # <<>>
    \/ results.numeric_issues # <<>>
    \/ results.null_issues # <<>>
    \/ results.special_char_issues # <<>>
    \/ results.alphabetical_issues # <<>>
    \/ results.empty_cell_issues # <<>>

(* C17: in validate_data a sheet's is_valid flag is false if and only if   *)
(* at least one of its eight issue lists (datetime, datetime_format,       *)
(* datetime_sequence, numeric, null, special_char, alphabetical,           *)
(* empty_cell) is not empty, whatever rows and cells were processed; and   *)
(* all_valid is true if and only if every sheet's is_valid is true.        *)
C17_ValidIffNoIssue ==
    /\ \A i \in 1..Len(validation_results) :
            ~validation_results[i].results.is_valid
                <=> SomeIssue(validation_results[i].results)
    /\ all_valid <=> \A i \in 1..Len(validation_results) :
                        validation_results[i].results.is_valid

\* two sheets were validated: the first has no issue and is valid, the
\* second has a sequence issue as its only issue and is not valid, and
\* all_valid is false
C17_Witness ==
    /\ vd_pc = "done"
    /\ Len(validation_results) = 2
    /\ validation_results[1].results.is_valid
    /\ ~SomeIssue(validation_results[1].results)
    /\ validation_results[1].results.total_cells_validated > 0
    /\ ~validation_results[2].results.is_valid
    /\ validation_results[2].results.datetime_sequence_issues # <<>>
    /\ validation_results[2].results.datetime_issues = <<>>
    /\ validation_results[2].results.datetime_format_issues = <<>>
    /\ validation_results[2].results.numeric_issues = <<>>
    /\ validation_results[2].results.null_issues = <<>>
    /\ ~all_valid

\* find_missing_data has finished its gap analysis
GapAnalysisDone == fm_pc \in {"no_missing_data", "gaps_found", "error"}

(* C18: in find_missing_data, when no override is given, the baseline      *)
(* interval used for gap detection equals the most frequent delta between  *)
(* consecutive sorted timestamps (the mode), for every input with at least *)
(* two valid instants.                                                     *)
C18_BaselineIsMode ==
    (GapAnalysisDone /\ custom_interval = NoCustom)
        => expected_interval \in MostFrequent(TimeDiffs(datetime_col))

\* the consecutive pairs of sorted timestamps whose delta exceeds
\* 1.1 x baseline
PairsBeyondTolerance ==
    { i \in 1..(Len(datetime_col) - 1) :
        10 * (datetime_col[i + 1] - datetime_col[i]) > 11 * expected_interval }

\* the Gap of the pair i: missingCount = floor(delta / baseline) - 1 and
\* missing minutes = missingCount x baseline
GapOfPair(i) ==
    [gap_start |-> datetime_col[i], gap_end |-> datetime_col[i + 1],
     missing_seconds |->
        (((datetime_col[i + 1] - datetime_col[i]) \div expected_interval) - 1)
            * expected_interval,
     missing_rows |->
        ((datetime_col[i + 1] - datetime_col[i]) \div expected_interval) - 1]

RECURSIVE SumOfMissingRows(_)
SumOfMissingRows(ranges) ==
    IF ranges = <<>> THEN 0
    ELSE Head(ranges).missing_rows + SumOfMissingRows(Tail(ranges))

(* C19: in find_missing_data exactly one Gap is recorded for each          *)
(* consecutive pair of sorted timestamps whose delta exceeds               *)
(* 1.1 x baseline and none for any other pair; each Gap has                *)
(* missingCount = floor(delta / baseline) - 1, missing minutes =           *)
(* missingCount x baseline, and contributes exactly missingCount           *)
(* reconstructed instants, at start + k x baseline for k = 1..missingCount.*)
(* For 1-minute data with one pair 5 minutes apart: one Gap, missingCount  *)
(* 4, instants at +1, +2, +3 and +4 minutes.                               *)
C19_OneGapPerPair ==
    GapAnalysisDone =>
        /\ Len(gap_ranges) = Cardinality(PairsBeyondTolerance)
        /\ \A i \in PairsBeyondTolerance :
                /\ Count(GapOfPair(i), gap_ranges) = 1
                /\ \A k \in 1..GapOfPair(i).missing_rows :
                        Count(datetime_col[i] + k * expected_interval,
                                    missing_timestamps) >= 1
        /\ Len(missing_timestamps) = SumOfMissingRows(gap_ranges)
        /\ (datetime_col = <<0, 60, 120, 420>> /\ expected_interval = 60)
                => /\ gap_ranges = << [gap_start |-> 120, gap_end |-> 420,
                                      missing_seconds |-> 240,
                                      missing_rows |-> 4] >>
                   /\ missing_timestamps = <<180, 240, 300, 360>>

\* the observed timestamps together with the reconstructed ones
MergedTimestamps ==
    { datetime_col[i] : i \in 1..Len(datetime_col) }
        \cup { missing_timestamps[j] : j \in 1..Len(missing_timestamps) }

\* the timestamp that follows x when the merged timestamps are sorted
NextMerged(x) ==
    CHOOSE y \in MergedTimestamps :
        y > x /\ \A z \in MergedTimestamps : z > x => y <= z

\* a Gap is recorded for the pair i of observed timestamps
GapRecorded(i) ==
    \E n \in 1..Len(gap_ranges) :
        /\ gap_ranges[n].gap_start = datetime_col[i]
        /\ gap_ranges[n].gap_end = datetime_col[i + 1]

(* C20: after gap analysis, for any two consecutive observed timestamps    *)
(* either their delta is within the tolerance of the dominant interval or  *)
(* a Gap is recorded for them, and the sequence of the observed and the    *)
(* reconstructed missing timestamps, merged and sorted, has no consecutive *)
(* delta exceeding the tolerance (1.1 x baseline).                         *)
C20_MergedWithinTolerance ==
    GapAnalysisDone =>
        /\ \A i \in 1..(Len(datetime_col) - 1) :
                i \in PairsBeyondTolerance => GapRecorded(i)
        /\ \A x \in MergedTimestamps :
                (\E y \in MergedTimestamps : y > x)
                    => 10 * (NextMerged(x) - x) <= 11 * expected_interval

\* the number of timestamps reconstructed for the gaps before the n-th
MissingBefore(n) == SumOfMissingRows(SubSeq(gap_ranges, 1, n - 1))

\* the timestamps reconstructed for the n-th gap
MissingOfGap(n) ==
    SubSeq(missing_timestamps, MissingBefore(n) + 1,
           MissingBefore(n) + gap_ranges[n].missing_rows)

(* C21: every reconstructed missing timestamp produced by                  *)
(* find_missing_data lies strictly between the two observed timestamps of  *)
(* its gap (gap start < missing < gap end), with a detected and with an    *)
(* overridden baseline interval.                                           *)
C21_MissingInsideGap ==
    GapAnalysisDone =>
        /\ Len(missing_timestamps) = SumOfMissingRows(gap_ranges)
        /\ \A n \in 1..Len(gap_ranges) :
                \A k \in 1..Len(MissingOfGap(n)) :
                    /\ gap_ranges[n].gap_start < MissingOfGap(n)[k]
                    /\ MissingOfGap(n)[k] < gap_ranges[n].gap_end

\* two gaps filled at an overridden interval of 30 seconds
C21_Witness ==
    /\ fm_pc = "gaps_found"
    /\ custom_interval = [unit |-> "Seconds", value |-> 30]
    /\ datetime_col = <<0, 60, 120, 240>>
    /\ missing_timestamps = <<30, 90, 150, 180, 210>>

(* C22: every Gap recorded by find_missing_data stands for one or more     *)
(* absent timestamps: its missing-row count is at least 1.                 *)
C22_GapHasMissingRows ==
    GapAnalysisDone =>
        \A n \in 1..Len(gap_ranges) : gap_ranges[n].missing_rows >= 1

\* the cells of the column that hold a valid instant
InstantCells == { i \in 1..Len(fm_column) : fm_column[i].t = "instant" }

(* C23: when the timestamp column has fewer than 2 valid instants after    *)
(* nulls and unparseable values are dropped, find_missing_data performs no *)
(* gap analysis and reports an insufficient-data outcome of its own, never *)
(* the "no missing data found" outcome.                                    *)
C23_InsufficientData ==
    Cardinality(InstantCells) < 2 =>
        /\ fm_pc \in {"start", "few_rows", "no_valid_datetime",
                      "not_enough_points"}
        /\ expected_interval = NoInterval
        /\ gap_ranges = <<>> /\ missing_timestamps = <<>>

\* one valid instant between an empty cell and text that is no date
C23_Witness ==
    /\ fm_pc = "not_enough_points"
    /\ fm_column = <<NullCell, InstantCell(60), TextCell(<<"x">>)>>
    /\ datetime_col = <<60>>

\* how many entries of the list of issues are about the row
IssuesOfRow(issues, row) ==
    Cardinality({ n \in 1..Len(issues) : issues[n].row = row })

\* C25 for row k of sheet i, whose date and time are d and t
OneOutcome(i, k, d, t) ==
    LET nulls   == IssuesOfRow(validation_results[i].results.datetime_issues,
                               RowNumber(k))
        formats == IssuesOfRow(validation_results[i].results.datetime_format_issues,
                               RowNumber(k))
        entries == Cardinality(CombinedOf(i, RowNumber(k)))
    IN  /\ nulls + formats + entries = 1
        /\ nulls = 1 <=> (IsNa(d) \/ IsNa(t))

(* C25: in validate_data every row at or after the date/time start row     *)
(* ends in exactly one of three outcomes: a datetime issue (null date or   *)
(* null time), a datetime_format issue (a non-null value that fails to     *)
(* parse against its column's locked format), or one entry appended to the *)
(* combined sequence; no row is dropped without an issue or an entry,      *)
(* whatever mix of text cells and structured date-time cells the two       *)
(* columns contain.                                                        *)
C25_RowHasOneOutcome ==
    \A i \in 1..Len(validation_results) :
        \A k \in 1..Len(DateColumnOf(i)) :
            OneOutcome(i, k, DateColumnOf(i)[k], TimeColumnOf(i)[k])

\* the combined sequence of the i-th sheet read and its consecutive deltas
CombinedSequence(i) == vd_read[i].combined_datetimes
Deltas(i) == Intervals(CombinedSequence(i))

\* the consecutive pairs of the i-th sheet whose delta differs from the
\* interval m by more than a second
PairsOffInterval(i, m) ==
    { j \in 1..Len(Deltas(i)) : Abs(Deltas(i)[j] - m) > 1 }

\* the datetime_sequence issue of the pair j, the expected interval being m
SequenceIssueOf(i, j, m) ==
    [row1 |-> CombinedSequence(i)[j].row,
     row2 |-> CombinedSequence(i)[j + 1].row,
     expected |-> AddSeconds(CombinedSequence(i)[j].datetime, m),
     actual |-> CombinedSequence(i)[j + 1].datetime]

\* the sequence issues of the i-th sheet are those of the pairs that are
\* more than a second off the interval m, and its interval is m
SequenceCheckedWith(i, m) ==
    LET issues == validation_results[i].results.datetime_sequence_issues
    IN  /\ validation_results[i].results.detected_interval = IntervalType(m)
        /\ Len(issues) = Cardinality(PairsOffInterval(i, m))
        /\ \A j \in 1..Len(Deltas(i)) :
                j \in PairsOffInterval(i, m)
                    <=> \E n \in 1..Len(issues) :
                            issues[n] = SequenceIssueOf(i, j, m)

(* C26: when the combined sequence has at least 2 entries, the expected    *)
(* interval is the mode of the consecutive deltas in seconds, and a        *)
(* datetime_sequence issue is recorded for a consecutive pair if and only  *)
(* if its delta differs from that mode by more than 1 second, the issue    *)
(* naming first instant + mode as the expected instant; with fewer than 2  *)
(* entries no interval is detected and no sequence issue is recorded.      *)
C26_SequenceIssuesOffMode ==
    \A i \in 1..Len(validation_results) :
        IF Len(CombinedSequence(i)) >= 2
        THEN \E m \in MostFrequent(Deltas(i)) : SequenceCheckedWith(i, m)
        ELSE /\ validation_results[i].results.detected_interval
                    = [label |-> "None"]
             /\ validation_results[i].results.datetime_sequence_issues = <<>>

\* rows at 23:00:00, 23:01:00, 23:02:00 and 23:03:02: the mode is a minute
\* and the one issue, for rows 3 and 4, names 23:03:00
C26_Witness ==
    /\ vd_pc = "done"
    /\ Len(validation_results) = 1
    /\ Len(CombinedSequence(1)) = 4
    /\ Deltas(1) = <<60, 60, 62>>
    /\ validation_results[1].results.detected_interval = [label |-> "1 minute"]
    /\ validation_results[1].results.datetime_sequence_issues
            = << [row1 |-> 3, row2 |-> 4,
                  expected |-> [year |-> 2026, month |-> 1, day |-> 9,
                                hour |-> 23, minute |-> 3, second |-> 0],
                  actual |-> [year |-> 2026, month |-> 1, day |-> 9,
                              hour |-> 23, minute |-> 3, second |-> 2]] >>

\* the most frequent delta that occurs first in row order
FirstTied(deltas) ==
    deltas[CHOOSE j \in 1..Len(deltas) :
                /\ deltas[j] \in MostFrequent(deltas)
                /\ \A h \in 1..(j - 1) : deltas[h] \notin MostFrequent(deltas)]

(* C29: when several consecutive deltas tie for most frequent in           *)
(* validate_data's sequence check, the expected interval is the tied delta *)
(* that occurs first in row order; consequently with at least 2 combined   *)
(* entries at least one consecutive pair matches the expected interval and *)
(* the number of datetime_sequence issues is strictly less than the number *)
(* of consecutive pairs.                                                   *)
C29_FirstTiedInterval ==
    \A i \in 1..Len(validation_results) :
        Len(CombinedSequence(i)) >= 2 =>
            /\ SequenceCheckedWith(i, FirstTied(Deltas(i)))
            /\ \E j \in 1..Len(Deltas(i)) :
                    j \notin PairsOffInterval(i, FirstTied(Deltas(i)))
            /\ Len(validation_results[i].results.datetime_sequence_issues)
                    < Len(Deltas(i))

\* rows at 23:01:00, 23:00:00 and 23:03:02: the deltas -60 and 182 tie, the
\* expected interval is the first, and the one issue is for rows 2 and 3
C29_Witness ==
    /\ vd_pc = "done"
    /\ Len(validation_results) = 1
    /\ Deltas(1) = <<-60, 182>>
    /\ Cardinality(MostFrequent(Deltas(1))) = 2
    /\ Len(validation_results[1].results.datetime_sequence_issues) = 1
    /\ validation_results[1].results.datetime_sequence_issues[1].row1 = 2
    /\ validation_results[1].results.datetime_sequence_issues[1].expected
            = [year |-> 2026, month |-> 1, day |-> 9,
               hour |-> 22, minute |-> 59, second |-> 0]

\* the rows asked for that are present in both tables
CheckedRows ==
    { r \in RowsToCheck : r < NumRows(template_df) /\ r < NumRows(data_df) }

\* the columns of a row whose template cell is not empty
NonEmptyColumns(r) ==
    { c \in 0..(template_df.cols - 1) : CellStr(ILoc(template_df, r, c)) # <<>> }

\* the last of them, -1 when the row's template cells are all empty
TemplateWatermark(r) ==
    IF NonEmptyColumns(r) = {} THEN -1
    ELSE CHOOSE c \in NonEmptyColumns(r) : \A d \in NonEmptyColumns(r) : d <= c

\* the columns of the cells compared in a row
ComparedColumns(r) ==
    { validated_data[n].column :
        n \in { k \in 1..Len(validated_data) : validated_data[k].row = r + 1 } }

\* a mismatch is reported for the cell
MismatchAt(row, column) ==
    \E m \in 1..Len(text_cell_mismatches) :
        /\ text_cell_mismatches[m].row = row
        /\ text_cell_mismatches[m].column = column

PresentInBoth(r) ==
    r >= 0 /\ r < NumRows(template_df) /\ r < NumRows(data_df)

\* every cell of the rows present in both tables holds the same trimmed
\* text in the two tables
OverlappingRowsMatch ==
    \A r \in 0..(NumRows(template_df) - 1) :
        r < NumRows(data_df) =>
            \A c \in 0..(template_df.cols - 1) :
                CellStr(ILoc(template_df, r, c)) = CellStr(ILoc(data_df, r, c))

\* a requested row that is not present in both tables is passed over: the
\* comparison ends normally and reports nothing for it
AbsentRowsSkipped ==
    /\ vc_pc # "raised"
    /\ vc_pc = "done" =>
            \A r \in RowsToCheck :
                ~PresentInBoth(r) =>
                    \A m \in 1..Len(text_cell_mismatches) :
                        text_cell_mismatches[m].row # r + 1

\* in "All Rows" mode a data sheet with fewer rows than the template is
\* valid when the column counts match and the overlapping rows match
ShorterDataSheetValid ==
    ( /\ vc_pc = "done" /\ validation_mode = "All Rows"
      /\ NumRows(data_df) < NumRows(template_df)
      /\ template_df.cols = data_df.cols /\ OverlappingRowsMatch )
        => sheet_valid

(* C30: in validate_columns_and_cells a requested row index that is not    *)
(* present in both the template table and the data table is skipped        *)
(* without producing a mismatch: in "All Rows" mode a data sheet with      *)
(* fewer rows than the template is still reported valid when the column    *)
(* counts match and all overlapping rows match.                            *)
C30_AbsentRowsSkipped == AbsentRowsSkipped /\ ShorterDataSheetValid

\* the number of compared sheets with the status
SheetsWithStatus(status) ==
    Cardinality({ i \in 1..Len(row_comparison) :
                    row_comparison[i].status = status })

(* C28: the row-count summary of validate_row_counts announces that all    *)
(* sheets have the correct number of rows only when every compared sheet   *)
(* has status Correct; whenever some sheet has status Incorrect or Error   *)
(* it does not announce success, and the correct and incorrect counters    *)
(* equal the numbers of sheets with status Correct and Incorrect.          *)
C28_SuccessOnlyWhenAllCorrect ==
    rc_pc = "done" =>
        /\ rc_summary = "success"
                => SheetsWithStatus("Correct") = Len(row_comparison)
        /\ (SheetsWithStatus("Incorrect") > 0 \/ SheetsWithStatus("Error") > 0)
                => rc_summary # "success"
        /\ correct_sheets = SheetsWithStatus("Correct")
        /\ incorrect_sheets = SheetsWithStatus("Incorrect")

----------------------------------------------------------------------------
============================================================================
